---- MODULE Spec2Model ----
(***************************************************************************)
(* mcproxy: the dual-sided Minecraft protocol proxy of src/mcproxy.c.      *)
(*                                                                         *)
(* The process-wide aggregate `mitm`, the poll array's proxy connections   *)
(* and the single-threaded pump are modelled as a state machine.  One call *)
(* of handle_proxy is modelled by its positions: the read (lines 526-560), *)
(* one step per frame of the extraction loop (lines 574-615) and the       *)
(* write-out with the delayed activation (lines 617-676); nothing else     *)
(* runs while a call is in progress.                                       *)
(*                                                                         *)
(* A frame is a sequence of fields; a field is a record: [v |-> n] a       *)
(* varint, [s |-> str] a string, [der |-> k] a DER public key, [tok |-> t] *)
(* a verification token, [pk |-> k, m |-> x] an RSA ciphertext, [z |-> f]  *)
(* a zlib stream.  Random bytes and generated keys are fresh values        *)
(* [rnd |-> n], [gen |-> n]; values chosen by a peer are [ext |-> name].   *)
(***************************************************************************)
EXTENDS Integers, Sequences, FiniteSets, TLC

VARIABLES
    proc,      \* the process: "running", or how it ended
    why,       \* the message printed before exit(1), "" while running
    pc,        \* position of the pump: "poll", or inside handle_proxy
    cur,       \* the connection handle_proxy was called with
    mitm,      \* struct mitm
    conns,     \* connections registered in the poll array under G_PROXY
    nextfd,    \* next descriptor the OS hands out
    rng,       \* values drawn from RAND_pseudo_bytes / RSA_generate_key, plus 1
    posts,     \* bodies POSTed to the real session server for this session
    io,        \* what the current handle_proxy call read, processed and wrote
    session,   \* number of sessions accepted so far
    handler,   \* the packet handler in use: "default" is handle_packet
    lastreq    \* the last EncryptionRequest of the server intercepted in this session

vars == <<proc, why, pc, cur, mitm, conns, nextfd, rng, posts, io, session,
          handler, lastreq>>

----------------------------------------------------------------------------
\* Bounds of the model

MaxChunk == 2       \* frames in one read
MaxSessions == 2    \* clients accepted in a run
MaxKeys == 2        \* EncryptionRequests intercepted in a session
MaxIV == 2          \* frames a cipher cursor runs over

----------------------------------------------------------------------------
\* mcp_ids.h

STATE_IDLE == 0
STATE_STATUS == 1
STATE_LOGIN == 2
STATE_PLAY == 3

PID_Handshake == 0
PID_EncryptionRequest == 1
PID_EncryptionResponse == 1
PID_LoginSuccess == 2
PID_SetCompression == 3
PID_SP_SetCompression == 70

\* (state<<24)|(is_client<<28)|(type&0xffffff): bit 4 of the state and the
\* is_client bit share bit 28 of the selector
SType(state, is_client, type) ==
    <<IF (state \div 16) % 2 = 1 THEN state ELSE state + 16 * is_client,
      type % 16777216>>

CI_Handshake == SType(STATE_IDLE, 1, PID_Handshake)
CL_EncryptionResponse == SType(STATE_LOGIN, 1, PID_EncryptionResponse)
SL_EncryptionRequest == SType(STATE_LOGIN, 0, PID_EncryptionRequest)
SL_SetCompression == SType(STATE_LOGIN, 0, PID_SetCompression)
SL_LoginSuccess == SType(STATE_LOGIN, 0, PID_LoginSuccess)

----------------------------------------------------------------------------
\* Values

Zero == [zero |-> 0]              \* a field after CLEAR(mitm)
V(n) == [v |-> n]
IsVarint(f) == DOMAIN f = {"v"}

\* lh_read_varint on the field at the cursor.  A varint is held as the int
\* the code converts it to (mitm.comptr = threshold): -1 is ff ff ff ff 0f
ReadVarint(p) == IF p # <<>> /\ IsVarint(Head(p)) THEN Head(p).v ELSE 0

\* size of an encoded frame (one unit per field)
FrameSize(f) == Len(f)

----------------------------------------------------------------------------
\* OpenSSL, as the proxy uses it

\* d2i_RSA_PUBKEY: the RSA structure of a DER blob, NULL (Zero) when invalid
d2i_RSA_PUBKEY(der) ==
    IF DOMAIN der = {"der"} /\ der.der # [ext |-> "BAD"] THEN der.der ELSE Zero

\* i2d_RSA_PUBKEY: the DER SubjectPublicKeyInfo of a key
i2d_RSA_PUBKEY(rsa) == [der |-> rsa]

\* RSA_public_encrypt(..., RSA_PKCS1_PADDING)
RSA_public_encrypt(m, rsa) == [pk |-> rsa, m |-> m]

\* RSA_private_decrypt(..., RSA_PKCS1_PADDING): [len |-> -1] on failure
RSA_private_decrypt(ct, rsa) ==
    IF DOMAIN ct = {"pk", "m"} /\ ct.pk = rsa
    THEN [len |-> 1, m |-> ct.m] ELSE [len |-> -1, m |-> Zero]

\* SHA1_Init/Update/Final over the three inputs, in the order given
SHA1(a, b, c) == [sha1 |-> <<a, b, c>>]

\* RAND_pseudo_bytes and RSA_generate_key: the r-th value drawn; no peer
\* knows it before the proxy sends it
Fresh(r) == [rnd |-> r]
FreshKey(r) == [gen |-> r]
\* the first value of a session: no value is drawn twice in a run
RngBase(sess) == 16 * sess + 1

\* an IV cursor: the key it was set from and the number of frames the
\* cipher has processed since
IV(key) == [key |-> key, n |-> 0]
Advance(iv, n) == [iv EXCEPT !.n = @ + n]

----------------------------------------------------------------------------
\* write_packet_raw: append one length-prefixed frame to a buffer

\* a variant that puts the frame in front of what the buffer holds
write_packet_raw_InFront(f, buf) == <<f>> \o buf

write_packet_raw(f, buf) == Append(buf, f)

\* the pseudo-compressed prefix of a synthesized handshake frame
PseudoComp(m) == IF m.comptr >= 0 THEN <<V(0)>> ELSE <<>>

\* the result of processing one frame
Result(m, r, po, p, w) == [m |-> m, rng |-> r, posts |-> po, proc |-> p, why |-> w]
Exit1(m, r, po, w) == Result(m, r, po, "exit1", w)

\* a variant that passes the scraped serverId on
AuthBody_Scraped(m) ==
    [accessToken |-> m.accessToken, selectedProfile |-> m.selectedProfile,
     serverId |-> m.serverId]

\* query_auth_server: the body posted to the real session server
AuthBody(m) ==
    [accessToken |-> m.accessToken, selectedProfile |-> m.selectedProfile,
     serverId |-> [hex |-> SHA1(m.s_id, m.s_skey, m.s_pkey)]]

\* a variant that makes no POST
query_auth_server_Silent(m, po) == po

query_auth_server(m, po) == po \cup {AuthBody(m)}

\* a variant that passes the server's own key and token on to the client
SynthEncryptionRequest_Passed(m, serverID) ==
    PseudoComp(m) \o <<V(PID_EncryptionRequest), serverID, m.s_pkey,
                       [tok |-> m.s_token]>>

\* the frame process_encryption_request sends to the client
SynthEncryptionRequest(m, serverID) ==
    PseudoComp(m) \o <<V(PID_EncryptionRequest), serverID,
                       m.c_pkey, [tok |-> m.c_token]>>

\* forw is the name of the forward buffer ("cs_tx" or "ms_tx")
process_encryption_request(p, forw, m, r, po) ==
    LET serverID == p[1]
        m1 == [m EXCEPT !.s_pkey = p[2], !.s_token = p[3].tok,
                        !.s_id = serverID, !.s_rsa = d2i_RSA_PUBKEY(p[2])]
        m2 == [m1 EXCEPT !.s_skey = Fresh(r),
                         !.c_rsa = FreshKey(r + 1),
                         !.c_pkey = i2d_RSA_PUBKEY(FreshKey(r + 1)),
                         !.c_token = Fresh(r + 2)]
        m3 == [m2 EXCEPT ![forw] =
                 write_packet_raw(SynthEncryptionRequest(m2, serverID), @)]
    IN  IF m1.s_rsa = Zero
        THEN Exit1(m1, r, po, "Failed to decode the server's public key")
        ELSE Result(m3, r + 3, po, "running", "")

\* a variant that re-encrypts the client's secrets for the server
SynthEncryptionResponse_ClientSecrets(m) ==
    PseudoComp(m) \o <<V(PID_EncryptionResponse),
                       RSA_public_encrypt(m.c_skey, m.s_rsa),
                       RSA_public_encrypt(m.c_token, m.s_rsa)>>

\* the frame process_encryption_response sends to the server
SynthEncryptionResponse(m) ==
    PseudoComp(m) \o <<V(PID_EncryptionResponse),
                       RSA_public_encrypt(m.s_skey, m.s_rsa),
                       RSA_public_encrypt(m.s_token, m.s_rsa)>>

\* a variant that answers the server and posts before it compares the tokens
process_encryption_response_Unverified(p, forw, m, r, po) ==
    LET dk == RSA_private_decrypt(p[1], m.c_rsa)
        m1 == [m EXCEPT !.c_skey = dk.m]
        dt == RSA_private_decrypt(p[2], m.c_rsa)
        m2 == [m1 EXCEPT ![forw] =
                 write_packet_raw(SynthEncryptionResponse(m1), @),
                         !.enable_encryption = 1]
    IN  IF m.c_rsa = Zero
        THEN Result(m, r, po, "segv", "")
        ELSE IF dk.len < 0
        THEN Exit1(m, r, po, "Failed to decrypt the shared key received from the client")
        ELSE IF dt.len < 0
        THEN Exit1(m1, r, po, "Failed to decrypt the verification token received from the client")
        ELSE IF dt.m # m.c_token
        THEN Exit1(m2, r, query_auth_server(m1, po), "Token does not match!")
        ELSE Result(m2, r, query_auth_server(m1, po), "running", "")

process_encryption_response(p, forw, m, r, po) ==
    LET dk == RSA_private_decrypt(p[1], m.c_rsa)
        m1 == [m EXCEPT !.c_skey = dk.m]
        dt == RSA_private_decrypt(p[2], m.c_rsa)
        m2 == [m1 EXCEPT ![forw] =
                 write_packet_raw(SynthEncryptionResponse(m1), @),
                         !.enable_encryption = 1]
    IN  IF m.c_rsa = Zero
        THEN Result(m, r, po, "segv", "")
        ELSE IF dk.len < 0
        THEN Exit1(m, r, po, "Failed to decrypt the shared key received from the client")
        ELSE IF dt.len < 0
        THEN Exit1(m1, r, po, "Failed to decrypt the verification token received from the client")
        ELSE IF dt.m # m.c_token
        THEN Exit1(m1, r, po, "Token does not match!")
        ELSE Result(m2, r, query_auth_server(m1, po), "running", "")

\* a variant that keeps the threshold when the frame carries a negative one
process_packet_KeepsThreshold(is_client, ptr, forw, m, r, po) ==
    LET uclen == IF m.comptr >= 0 THEN ReadVarint(ptr) ELSE 0
        p0 == IF m.comptr >= 0 THEN Tail(ptr) ELSE ptr
        type == ReadVarint(p0)
        p == Tail(p0)
        stype == SType(m.state, is_client, type)
        fwd == [m EXCEPT ![forw] = write_packet_raw(ptr, @)]
    IN  IF uclen # 0
        THEN Result(m, r, po, "abort", "assert(uclen==0)")
        ELSE IF stype = CI_Handshake
        THEN Result([fwd EXCEPT !.state = ReadVarint(SubSeq(p, 4, 4))],
                    r, po, "running", "")
        ELSE IF stype = CL_EncryptionResponse
        THEN process_encryption_response(p, forw, m, r, po)
        ELSE IF stype = SL_EncryptionRequest
        THEN process_encryption_request(p, forw, m, r, po)
        ELSE IF stype = SL_SetCompression
        THEN Result([fwd EXCEPT !.comptr = IF ReadVarint(p) < 0 THEN @
                                           ELSE ReadVarint(p)],
                    r, po, "running", "")
        ELSE IF stype = SL_LoginSuccess
        THEN Result([fwd EXCEPT !.state = STATE_PLAY], r, po, "running", "")
        ELSE Result(fwd, r, po, "running", "")

\* process_packet: a frame of the IDLE, STATUS and LOGIN phases.  ptr is the
\* whole frame, forw the name of the forward buffer
process_packet(is_client, ptr, forw, m, r, po) ==
    LET uclen == IF m.comptr >= 0 THEN ReadVarint(ptr) ELSE 0
        p0 == IF m.comptr >= 0 THEN Tail(ptr) ELSE ptr
        type == ReadVarint(p0)
        p == Tail(p0)
        stype == SType(m.state, is_client, type)
        fwd == [m EXCEPT ![forw] = write_packet_raw(ptr, @)]
    IN  IF uclen # 0
        THEN Result(m, r, po, "abort", "assert(uclen==0)")
        ELSE IF stype = CI_Handshake
        THEN Result([fwd EXCEPT !.state = ReadVarint(SubSeq(p, 4, 4))],
                    r, po, "running", "")
        ELSE IF stype = CL_EncryptionResponse
        THEN process_encryption_response(p, forw, m, r, po)
        ELSE IF stype = SL_EncryptionRequest
        THEN process_encryption_request(p, forw, m, r, po)
        ELSE IF stype = SL_SetCompression
        THEN Result([fwd EXCEPT !.comptr = ReadVarint(p)],
                    r, po, "running", "")
        ELSE IF stype = SL_LoginSuccess
        THEN Result([fwd EXCEPT !.state = STATE_PLAY], r, po, "running", "")
        ELSE Result(fwd, r, po, "running", "")

\* the number of rows of the table SUPPORT
MAXPACKETTYPES == 256
\* decode_packet and free_packet read SUPPORT[cl][type] for any type
InSupport(type) == type \in 0..(MAXPACKETTYPES - 1)

\* decode_packet: the type and a raw copy of the rest
decode_packet(is_client, data) ==
    [type |-> ReadVarint(data), cl |-> is_client, raw |-> Tail(data),
     modified |-> FALSE]

\* encode_packet of a packet that was not modified
encode_packet(pkt) == <<V(pkt.type)>> \o pkt.raw

\* handle_packet: the forward queue and the reply queue
handle_packet(pkt) == [tq |-> <<pkt>>, bq |-> <<>>]

\* a handler other than the default one may answer a packet, or forward it
\* and answer it
Handlers == {"default", "reply", "both"}
ExternalHandler(h, pkt) ==
    IF h = "reply" THEN [tq |-> <<>>, bq |-> <<pkt>>]
    ELSE [tq |-> <<pkt>>, bq |-> <<pkt>>]

\* lh_zlib_encode_to / lh_zlib_decode_to
Deflate(f) == [z |-> f]
Inflate(p) == IF p # <<>> /\ DOMAIN Head(p) = {"z"} THEN Head(p).z ELSE <<>>

\* a variant that never compresses
EncodeEnvelope_Raw(ubuf, comptr) ==
    IF comptr >= 0 THEN <<V(0)>> \o ubuf ELSE ubuf

\* write_packet: what is appended to the buffer for one packet
EncodeEnvelope(ubuf, comptr) ==
    IF comptr >= 0
    THEN IF FrameSize(ubuf) >= comptr
         THEN <<V(FrameSize(ubuf)), Deflate(ubuf)>>
         ELSE <<V(0)>> \o ubuf
    ELSE ubuf

write_packet(pkt, buf, m) ==
    write_packet_raw(EncodeEnvelope(encode_packet(pkt), m.comptr), buf)

RECURSIVE WriteQueue(_, _, _)
WriteQueue(q, buf, m) ==
    IF q = <<>> THEN buf
    ELSE WriteQueue(Tail(q), write_packet(Head(q), buf, m), m)

\* process_play_packet: a frame of the PLAY phase.  forw and back are the
\* names of the forward and the reply buffer
process_play_packet(is_client, ptr, forw, back, m, r, po) ==
    LET usize == IF m.comptr >= 0 THEN ReadVarint(ptr) ELSE 0
        p0 == IF m.comptr >= 0 THEN Tail(ptr) ELSE ptr
        p == IF usize # 0 THEN Inflate(p0) ELSE p0
        pkt == decode_packet(is_client, p)
        q == IF handler = "default" THEN handle_packet(pkt)
             ELSE ExternalHandler(handler, pkt)
        m1 == [m EXCEPT ![forw] = WriteQueue(q.tq, @, m)]
        m2 == [m1 EXCEPT ![back] = WriteQueue(q.bq, @, m)]
    IN  IF usize # 0 /\ FrameSize(p) # usize
        THEN Result(m, r, po, "abort", "assert(plen==usize)")
        ELSE Result(m2, r, po, "running", "")

----------------------------------------------------------------------------
\* The peers: the frames a client and a server may send

NextStates == {1, 2, 3, 4}
Thresholds == {3, -1}

Handshake(ns) == <<V(PID_Handshake), V(47), [s |-> "host"], V(25565), V(ns)>>

\* the client encrypts with the public key it was given, or with another
ClientPk(m) == IF m.c_rsa # Zero THEN m.c_rsa ELSE [ext |-> "OPK"]

EncryptionResponse(pk, key, tok) ==
    <<V(PID_EncryptionResponse), [pk |-> pk, m |-> key], [pk |-> pk, m |-> tok]>>

EncryptionRequest(der) ==
    <<V(PID_EncryptionRequest), [s |-> "X"], [der |-> [ext |-> der]],
      [tok |-> [ext |-> "T1"]]>>

SetCompression(t) == <<V(PID_SetCompression), V(t)>>
LoginSuccess == <<V(PID_LoginSuccess), [s |-> "uuid"], [s |-> "name"]>>
Other == <<V(5), V(9)>>
\* SetCompression as the server sends it in the PLAY phase
SP_SetCompression(t) == <<V(PID_SP_SetCompression), V(t)>>

\* a frame whose type is past the last row of SUPPORT
Beyond == <<V(MAXPACKETTYPES + 44), V(9)>>

\* the response of a client that follows the protocol
GoodResponse(m) == EncryptionResponse(ClientPk(m), [ext |-> "CK"], m.c_token)

\* A frame whose type the current phase does not dispatch on is forwarded
\* like any other, so Other stands for it.
ClientFrames(m) ==
    (IF m.state = STATE_IDLE THEN {Handshake(ns) : ns \in NextStates} ELSE {})
    \cup (IF m.state = STATE_LOGIN
          THEN {GoodResponse(m),
                EncryptionResponse(ClientPk(m), [ext |-> "CK"], [ext |-> "T9"]),
                EncryptionResponse([ext |-> "OPK"], [ext |-> "CK"], m.c_token)}
          ELSE {})
    \cup (IF m.state = STATE_PLAY THEN {Beyond} ELSE {})
    \cup {Other}

ServerFrames(m) ==
    (IF m.state = STATE_LOGIN
     THEN {EncryptionRequest(der) : der \in {"SPK", "BAD"}}
          \cup {SetCompression(t) : t \in Thresholds}
          \cup {LoginSuccess}
     ELSE {})
    \cup (IF m.state = STATE_PLAY
          THEN {SP_SetCompression(t) : t \in Thresholds \ {-1}} ELSE {})
    \cup {Other}

\* a peer that knows compression is on sends the U=0 envelope, or a
\* compressed frame
Enveloped(fs) == fs \cup {<<V(0)>> \o f : f \in fs}
Compressed(f) == <<V(FrameSize(f)), [z |-> f]>>
Big == <<V(9), [s |-> "a"], [s |-> "b"]>>
\* a compressed frame whose U field is not the length of what it inflates to
Mismatched == <<V(FrameSize(Big) + 1), [z |-> Big]>>
Wire(fs, m) ==
    IF m.comptr >= 0
    THEN {<<V(0)>> \o f : f \in fs} \cup {Compressed(Big), Mismatched}
    ELSE fs

PeerFrames(is_client, m) ==
    Wire(IF is_client = 1 THEN ClientFrames(m) ELSE ServerFrames(m), m)

----------------------------------------------------------------------------
\* The session aggregate

\* CLEAR(mitm)
Cleared ==
    [state |-> 0, cs |-> 0, ms |-> 0, cs_conn |-> Zero, ms_conn |-> Zero,
     cs_rx |-> 0, cs_tx |-> <<>>, ms_rx |-> 0, ms_tx |-> <<>>,
     s_rsa |-> Zero, c_rsa |-> Zero, s_token |-> Zero, c_token |-> Zero,
     s_skey |-> Zero, c_skey |-> Zero,
     accessToken |-> Zero, selectedProfile |-> Zero, serverId |-> Zero,
     s_id |-> Zero, s_pkey |-> Zero, c_pkey |-> Zero,
     c_aes |-> Zero, c_enc_iv |-> Zero, c_dec_iv |-> Zero,
     s_aes |-> Zero, s_enc_iv |-> Zero, s_dec_iv |-> Zero,
     enable_encryption |-> 0, encryption_active |-> 0,
     output |-> 0, comptr |-> 0]

\* proxy_pump up to the main loop
Started ==
    /\ proc = "running"
    /\ why = ""
    /\ pc = "poll"
    /\ cur = Zero
    /\ mitm = [Cleared EXCEPT !.cs = -1, !.ms = -1]
    /\ conns = {}
    /\ nextfd = 5
    /\ rng = RngBase(0)
    /\ posts = {}
    /\ io = <<>>
    /\ session = 0
    /\ lastreq = Zero

Init == Started /\ handler = "default"
InitH == Started /\ handler \in Handlers \ {"default", "reply"}

----------------------------------------------------------------------------
\* handle_server: a client connects to the proxy listener

\* a variant that keeps what the loopback endpoint has scraped
CLEAR_KeepsIdentity(m) ==
    [Cleared EXCEPT !.accessToken = m.accessToken,
                    !.selectedProfile = m.selectedProfile,
                    !.serverId = m.serverId]

\* CLEAR(mitm): every byte of the context is set to 0
CLEAR(m) == Cleared

handle_server ==
    /\ proc = "running" /\ pc = "poll"
    /\ session < MaxSessions
    /\ LET cc == [fd |-> nextfd, priv |-> 1]
           mc == [fd |-> nextfd + 1, priv |-> 0]
       IN  /\ mitm' = [CLEAR(mitm) EXCEPT !.output = 1,
                                      !.cs = cc.fd, !.ms = mc.fd,
                                      !.cs_conn = cc, !.ms_conn = mc,
                                      !.comptr = -1]
           /\ conns' = conns \cup {cc, mc}
    /\ nextfd' = nextfd + 2
    /\ session' = session + 1
    /\ io' = <<>>
    /\ rng' = RngBase(session')
    /\ posts' = {}
    /\ lastreq' = Zero
    /\ UNCHANGED <<proc, why, pc, cur, handler>>

----------------------------------------------------------------------------
\* handle_proxy

\* the AES context and IV cursor each path of handle_proxy uses
ReadCipher(is_client) ==
    IF is_client = 1 THEN [ctx |-> "c_aes", iv |-> "c_dec_iv"]
                     ELSE [ctx |-> "s_aes", iv |-> "s_dec_iv"]
ForwardCipher(is_client) ==
    IF is_client = 1 THEN [ctx |-> "s_aes", iv |-> "s_enc_iv"]
                     ELSE [ctx |-> "c_aes", iv |-> "c_enc_iv"]
\* a variant that encrypts replies with the cipher of the other leg
ReplyCipher_OtherLeg(is_client) == ForwardCipher(is_client)

ReplyCipher(is_client) ==
    IF is_client = 1 THEN [ctx |-> "c_aes", iv |-> "c_enc_iv"]
                     ELSE [ctx |-> "s_aes", iv |-> "s_enc_iv"]

\* the buffers of a call: rx input, tx forward, bx reply
RxOf(is_client) == IF is_client = 1 THEN "cs_rx" ELSE "ms_rx"
TxOf(is_client) == IF is_client = 1 THEN "cs_tx" ELSE "ms_tx"
BxOf(is_client) == IF is_client = 1 THEN "ms_tx" ELSE "cs_tx"

\* the connections the forward and the reply buffer are written to
ForwardConn(is_client, m) == IF is_client = 1 THEN m.ms_conn ELSE m.cs_conn
\* a variant that writes the reply buffer where the forward buffer goes
ReplyConn_Forward(is_client, m) == IF is_client = 1 THEN m.ms_conn ELSE m.cs_conn

ReplyConn(is_client, m) == IF is_client = 1 THEN m.cs_conn ELSE m.ms_conn

NoCrypt == [ctx |-> "none"]
\* a variant that starts to encrypt as soon as encryption is armed
Crypt_WhenArmed(c, m) ==
    IF m.encryption_active = 1 \/ m.enable_encryption = 1
    THEN [ctx |-> c.ctx, key |-> m[c.ctx], ivn |-> c.iv, iv |-> m[c.iv]]
    ELSE NoCrypt

\* AES_cfb8_encrypt with the context and cursor c names, if encryption is on
Crypt(c, m) ==
    IF m.encryption_active = 1
    THEN [ctx |-> c.ctx, key |-> m[c.ctx], ivn |-> c.iv, iv |-> m[c.iv]]
    ELSE NoCrypt
Crypted(c, n, m) ==
    IF m.encryption_active = 1 THEN [m EXCEPT ![c.iv] = Advance(@, n)] ELSE m

\* lines 510-524: one of the parties has closed the connection
HandleProxyEOF(c) ==
    /\ proc = "running" /\ pc = "poll"
    /\ c \in conns
    /\ mitm' = [mitm EXCEPT !.state = STATE_IDLE, !.cs = -1, !.ms = -1,
                            !.comptr = -1]
    /\ conns' = conns \ {mitm.cs_conn, mitm.ms_conn}
    /\ io' = <<>>
    /\ cur' = c
    /\ UNCHANGED <<proc, why, pc, nextfd, rng, posts, session, handler, lastreq>>

\* the bounds of the model: keys generated, cursor positions
CursorMax(m) ==
    IF m.encryption_active = 1
    THEN LET ns == {m.c_enc_iv.n, m.c_dec_iv.n, m.s_enc_iv.n, m.s_dec_iv.n}
         IN  CHOOSE x \in ns : \A y \in ns : y <= x
    ELSE 0
InBounds(f) ==
    f \in Enveloped({EncryptionRequest("SPK")}) => rng + 3 <= RngBase(session) + 3 * MaxKeys

\* lines 526-560: the received bytes are decrypted into the decoded buffer.
\* The decoded buffer holds the number of frames received; what the peer put
\* in a frame is chosen when the extraction loop reaches it
HandleProxyRead(c) ==
    /\ proc = "running" /\ pc = "poll"
    /\ c \in conns
    /\ \E n \in 1..MaxChunk :
         /\ mitm.encryption_active = 1 => CursorMax(mitm) + n <= MaxIV
         /\ mitm' = [Crypted(ReadCipher(c.priv), n, mitm)
                       EXCEPT ![RxOf(c.priv)] = @ + n]
         /\ io' = <<[op |-> "read", conn |-> c, n |-> n,
                     crypt |-> Crypt(ReadCipher(c.priv), mitm)]>>
    /\ cur' = c
    /\ pc' = "extract"
    /\ UNCHANGED <<proc, why, conns, nextfd, rng, posts, session, handler, lastreq>>

\* lines 574-615: one turn of the extraction loop
ProcessFrame(is_client, f, m, r, po) ==
    IF m.state = STATE_PLAY
    THEN process_play_packet(is_client, f, TxOf(is_client), BxOf(is_client), m, r, po)
    ELSE process_packet(is_client, f, TxOf(is_client), m, r, po)

\* a frame without its envelope, and its type, as the sender meant them
Body(f, comptr) == IF comptr >= 0 THEN Tail(f) ELSE f
TypeOf(f, comptr) == Head(Body(f, comptr)).v
\* an EncryptionRequest of the server that arrives in the LOGIN phase
InterceptedRequest(is_client, f, m) ==
    /\ is_client = 0 /\ m.state = STATE_LOGIN
    /\ Head(f) = V(0) \/ m.comptr < 0
    /\ TypeOf(f, m.comptr) = PID_EncryptionRequest

\* the frames a step appended to a buffer
Added(m, m2, buf) == SubSeq(m2[buf], Len(m[buf]) + 1, Len(m2[buf]))

\* the packet type process_play_packet hands to decode_packet
PlayType(f, m) ==
    LET p0 == IF m.comptr >= 0 THEN Tail(f) ELSE f
    IN  ReadVarint(IF m.comptr >= 0 /\ ReadVarint(f) # 0 THEN Inflate(p0) ELSE p0)
\* the read of SUPPORT past its end has no defined result: the process
\* goes on as if the entry were empty, or it dies
Faults(f, m) ==
    IF m.state = STATE_PLAY /\ ~InSupport(PlayType(f, m))
    THEN {FALSE, TRUE} ELSE {FALSE}

\* query_auth_server, lines 889-891: what curl_easy_perform returns is
\* written to stderr and has no other effect
CurlFailed == "curl_easy_perform() failed"
\* a variant that gives up when the POST fails
CurlFailure_Aborts(ran) == Exit1(ran.m, ran.rng, ran.posts, CurlFailed)

CurlFailure(ran) == [ran EXCEPT !.why = CurlFailed]

\* the frame reaches query_auth_server
Posting(is_client, f, m, ran) ==
    /\ m.state # STATE_PLAY /\ ran.proc = "running"
    /\ SType(m.state, is_client, ReadVarint(Body(f, m.comptr)))
           = CL_EncryptionResponse
\* the session server answers, or the POST fails
CurlResults(is_client, f, m, ran) ==
    IF Posting(is_client, f, m, ran)
    THEN {"CURLE_OK", "CURLE_COULDNT_CONNECT"} ELSE {"CURLE_OK"}

\* lines 587-601: the record written to the capture file for a frame, before
\* the frame is dispatched: is_client, the time (left out), plen and the plen
\* bytes of the frame as they are in the decoded buffer
CaptureRecord(is_client, f, m) ==
    IF m.output # 0
    THEN <<[direction |-> is_client, length |-> FrameSize(f), payload |-> f]>>
    ELSE <<>>

Extract ==
    /\ proc = "running" /\ pc = "extract"
    /\ \E f \in PeerFrames(cur.priv, mitm) : \E fault \in Faults(f, mitm) :
         LET rx == RxOf(cur.priv)
             ran == ProcessFrame(cur.priv, f, mitm, rng, posts)
         IN  \E curl \in CurlResults(cur.priv, f, mitm, ran) :
             LET res == IF fault
                        THEN Result(mitm, rng, posts, "ub", "SUPPORT[cl][type]")
                        ELSE IF curl # "CURLE_OK" THEN CurlFailure(ran)
                        ELSE ran
             IN  /\ InBounds(f)
                 /\ io' = Append(io, [op |-> "frame", is_client |-> cur.priv,
                                       f |-> f, state |-> mitm.state,
                                       comptr |-> mitm.comptr,
                                       out |-> Added(mitm, res.m, TxOf(cur.priv)),
                                       back |-> Added(mitm, res.m, BxOf(cur.priv)),
                                       mcs |-> CaptureRecord(cur.priv, f, mitm),
                                       proc |-> res.proc])
                 /\ proc' = res.proc
                 /\ why' = res.why
                 /\ rng' = res.rng
                 /\ posts' = res.posts
                 /\ mitm' = IF res.proc = "running"
                            THEN [res.m EXCEPT ![rx] = @ - 1] ELSE res.m
                 /\ pc' = IF res.proc = "running" /\ mitm[rx] = 1
                          THEN "flush" ELSE "extract"
                 /\ lastreq' = IF InterceptedRequest(cur.priv, f, mitm) /\ res.proc = "running"
                               THEN Body(f, mitm.comptr) ELSE lastreq
    /\ UNCHANGED <<cur, conns, nextfd, session, handler>>

\* lines 617-651: a buffer is encrypted in place and sent off
SendOff(buf, conn, c, m) ==
    IF m[buf] = <<>> THEN <<>>
    ELSE <<[op |-> "write", conn |-> conn, data |-> m[buf], crypt |-> Crypt(c, m)]>>
Sent(buf, c, m) ==
    IF m[buf] = <<>> THEN m
    ELSE [Crypted(c, Len(m[buf]), m) EXCEPT ![buf] = <<>>]

\* a variant that flips encryption_active each time encryption is armed
Activate_Flips(m) ==
    IF m.enable_encryption = 1
    THEN [m EXCEPT !.c_aes = m.c_skey, !.c_enc_iv = IV(m.c_skey),
                   !.c_dec_iv = IV(m.c_skey),
                   !.s_aes = m.s_skey, !.s_enc_iv = IV(m.s_skey),
                   !.s_dec_iv = IV(m.s_skey),
                   !.enable_encryption = 0,
                   !.encryption_active = 1 - @]
    ELSE m

\* lines 653-676: the delayed set-up of the encryption
Activate(m) ==
    IF m.enable_encryption = 1
    THEN [m EXCEPT !.c_aes = m.c_skey, !.c_enc_iv = IV(m.c_skey),
                   !.c_dec_iv = IV(m.c_skey),
                   !.s_aes = m.s_skey, !.s_enc_iv = IV(m.s_skey),
                   !.s_dec_iv = IV(m.s_skey),
                   !.enable_encryption = 0, !.encryption_active = 1]
    ELSE m

Flush ==
    /\ proc = "running" /\ pc = "flush"
    /\ LET ic == cur.priv
           m1 == Sent(TxOf(ic), ForwardCipher(ic), mitm)
           m2 == Sent(BxOf(ic), ReplyCipher(ic), m1)
           w == SendOff(TxOf(ic), ForwardConn(ic, mitm), ForwardCipher(ic), mitm)
                \o SendOff(BxOf(ic), ReplyConn(ic, m1), ReplyCipher(ic), m1)
       IN  /\ io' = io \o w
           /\ IF \E x \in 1..Len(w) : w[x].conn \notin conns
              THEN proc' = "ub" /\ mitm' = mitm /\ pc' = pc
              ELSE proc' = proc /\ mitm' = Activate(m2) /\ pc' = "poll"
    /\ UNCHANGED <<why, cur, conns, nextfd, rng, posts, session, handler, lastreq>>

Next ==
    \/ handle_server
    \/ \E c \in conns : HandleProxyEOF(c)
    \/ \E c \in conns : HandleProxyRead(c)
    \/ Extract
    \/ Flush

Spec == Init /\ [][Next]_vars

\* the same pump with any of the handlers
SpecH == InitH /\ [][Next]_vars

----------------------------------------------------------------------------
\* The loopback endpoint that stands in for the session server

\* the bodies of the join requests a launcher sends: the three keys, or
\* a body without accessToken
JoinBodies ==
    {[accessToken |-> [s |-> "at1"], selectedProfile |-> [s |-> "sp1"],
      serverId |-> [s |-> "sid1"]],
     [selectedProfile |-> [s |-> "sp2"], serverId |-> [s |-> "sid2"]]}

\* parseJson: the value of a key into dst, 0 when the key is missing
parseJson(buf, str, m) ==
    IF str \in DOMAIN buf
    THEN [ok |-> 1, m |-> [m EXCEPT ![str] = buf[str]]]
    ELSE [ok |-> 0, m |-> m]

\* handle_session_server: the three values are parsed into mitm one after
\* the other, up to the first key that is missing
Scraped(buf, m) ==
    LET a == parseJson(buf, "accessToken", m)
        b == IF a.ok = 1 THEN parseJson(buf, "selectedProfile", a.m) ELSE a
        c == IF b.ok = 1 THEN parseJson(buf, "serverId", b.m) ELSE b
    IN  c

handle_session_server ==
    /\ proc = "running" /\ pc = "poll"
    /\ \E buf \in JoinBodies : mitm' = Scraped(buf, mitm).m
    /\ UNCHANGED <<proc, why, pc, cur, conns, nextfd, rng, posts, io, session,
                   handler, lastreq>>

\* the endpoint alone, for bodies with any of the three keys, and the reply:
\* 204 when the three values were parsed, none otherwise
IdentityKeys == {"accessToken", "selectedProfile", "serverId"}
Launchers == {"a", "b"}
BodiesQ ==
    {[k \in keys |-> [s |-> who]] : keys \in SUBSET IdentityKeys, who \in Launchers}

InitQ == Init

JoinQ ==
    /\ proc = "running" /\ pc = "poll"
    /\ \E buf \in BodiesQ :
          /\ mitm' = Scraped(buf, mitm).m
          /\ io' = <<[op |-> "join", buf |-> buf,
                      reply |-> IF Scraped(buf, mitm).ok = 1 THEN 204 ELSE 0]>>
    /\ UNCHANGED <<proc, why, pc, cur, conns, nextfd, rng, posts, session,
                   handler, lastreq>>

NextQ == JoinQ

SpecQ == InitQ /\ [][NextQ]_vars

\* the pump with both listeners, for the first client that connects
FirstClient == session = 0 /\ handle_server

NextJ ==
    \/ handle_session_server
    \/ FirstClient
    \/ \E c \in conns : HandleProxyEOF(c)
    \/ \E c \in conns : HandleProxyRead(c)
    \/ Extract
    \/ Flush

SpecJ == Init /\ [][NextJ]_vars

\* the pump with both listeners, for a launcher that joins once, while the
\* first client logs in
JoinAtLogin ==
    /\ session = 1 /\ mitm.state = STATE_LOGIN /\ mitm.accessToken = Zero
    /\ handle_session_server

NextT ==
    \/ JoinAtLogin
    \/ handle_server
    \/ \E c \in conns : HandleProxyEOF(c)
    \/ \E c \in conns : HandleProxyRead(c)
    \/ Extract
    \/ Flush

SpecT == Init /\ [][NextT]_vars

----------------------------------------------------------------------------
\* The envelope and the framing at the level of bytes.  A frame is the
\* sequence of bytes encode_packet left in ubuf; cur holds the frame and the
\* garbage byte that lies behind the received data, mitm.cs_tx the bytes on
\* their way to the peer.

MaxFrameLen == 3     \* bytes in a short frame
MaxThreshold == 4    \* the small thresholds
LongLen == 130       \* bytes in the long frame: its length takes two bytes
BigThreshold == 200  \* a threshold the long frame stays below

Bytes == {0, 1, 200}
RECURSIVE ByteSeqs(_)
ByteSeqs(n) ==
    IF n = 0 THEN {<<>>}
    ELSE ByteSeqs(n - 1) \cup
         {Append(q, b) : q \in {x \in ByteSeqs(n - 1) : Len(x) = n - 1}, b \in Bytes}
LongFrame == [i \in 1..LongLen |-> i % 7]
FramesB == (ByteSeqs(MaxFrameLen) \ {<<>>}) \cup {LongFrame}
ThresholdsB == 0..MaxThreshold \cup {BigThreshold}

\* lh_place_varint: 7-bit groups, low group first, top bit says "more"
RECURSIVE lh_place_varint(_)
lh_place_varint(n) ==
    IF n < 128 THEN <<n>> ELSE <<128 + (n % 128)>> \o lh_place_varint(n \div 128)

\* lh_read_varint at position i of b: the value and the bytes it took
RECURSIVE lh_read_varint(_, _)
lh_read_varint(b, i) ==
    IF i > Len(b) THEN [v |-> 0, ll |-> 0]
    ELSE IF b[i] < 128 THEN [v |-> b[i], ll |-> 1]
    ELSE LET r == lh_read_varint(b, i + 1)
         IN  [v |-> (b[i] - 128) + 128 * r.v, ll |-> r.ll + 1]

\* the check sum at the end of a zlib stream, cut down to one byte
SumBytes(b) == IF b = <<>> THEN 1 ELSE (b[1] + b[Len(b)] + Len(b)) % 251

\* lh_zlib_encode_to: a zlib stream, here one stored block with its check sum
lh_zlib_encode_to(b) ==
    <<120>> \o lh_place_varint(Len(b)) \o b \o <<SumBytes(b)>>

\* lh_zlib_decode_to: the inflated bytes, or len = -1; bytes behind the end
\* of the stream are not looked at
lh_zlib_decode_to(z) ==
    IF Len(z) < 2 \/ z[1] # 120 THEN [len |-> -1, data |-> <<>>]
    ELSE LET n == lh_read_varint(z, 2)
             from == 2 + n.ll
             data == SubSeq(z, from, from + n.v - 1)
         IN  IF from + n.v > Len(z) \/ z[from + n.v] # SumBytes(data)
             THEN [len |-> -1, data |-> <<>>]
             ELSE [len |-> n.v, data |-> data]

write_packet_raw_bytes(ptr, buf) == buf \o lh_place_varint(Len(ptr)) \o ptr

\* a variant that writes U = 0 in front of the compressed bytes
write_packet_bytes_NoLength(ubuf, tx, comptr) ==
    IF comptr >= 0
    THEN IF Len(ubuf) >= comptr
         THEN write_packet_raw_bytes(
                  lh_place_varint(0) \o lh_zlib_encode_to(ubuf), tx)
         ELSE write_packet_raw_bytes(lh_place_varint(0) \o ubuf, tx)
    ELSE write_packet_raw_bytes(ubuf, tx)

\* write_packet, from the encoded frame in ubuf on
write_packet_bytes(ubuf, tx, comptr) ==
    IF comptr >= 0
    THEN IF Len(ubuf) >= comptr
         THEN write_packet_raw_bytes(
                  lh_place_varint(Len(ubuf)) \o lh_zlib_encode_to(ubuf), tx)
         ELSE write_packet_raw_bytes(lh_place_varint(0) \o ubuf, tx)
    ELSE write_packet_raw_bytes(ubuf, tx)

\* n bytes from position from of rx; behind the data lies junk
ReadAt(rx, from, n, junk) ==
    [i \in 1..n |-> IF from + i - 1 <= Len(rx) THEN rx[from + i - 1] ELSE junk]

\* process_play_packet up to decode_packet: the bytes it hands to it.  The
\* frame is the plen bytes at ptr.  After Rvarint(usize) the decoder is
\* given plen bytes from the advanced pointer.
process_play_packet_bytes(rx, ptr, plen, comptr, junk) ==
    IF comptr >= 0
    THEN LET usize == lh_read_varint(rx, ptr)
             p == ptr + usize.ll
             z == lh_zlib_decode_to(ReadAt(rx, p, plen, junk))
         IN  IF usize.v # 0
             THEN IF z.len # usize.v
                  THEN [proc |-> "abort", data |-> <<>>]
                  ELSE [proc |-> "running", data |-> z.data]
             ELSE [proc |-> "running",
                   data |-> ReadAt(rx, p, plen - usize.ll, junk)]
    ELSE [proc |-> "running", data |-> ReadAt(rx, ptr, plen, junk)]

\* the first round of the extraction loop of handle_proxy in the PLAY phase
ExtractBytes(rx, comptr, junk) ==
    LET plen == lh_read_varint(rx, 1)
    IN  IF rx = <<>> \/ (rx[1] >= 128 /\ Len(rx) < 129)
             \/ plen.v + plen.ll > Len(rx)
        THEN [proc |-> "running", data |-> <<>>, dispatched |-> FALSE]
        ELSE [dispatched |-> TRUE] @@
             process_play_packet_bytes(rx, 1 + plen.ll, plen.v, comptr, junk)

StartedB ==
    /\ proc = "running" /\ why = "" /\ conns = {} /\ nextfd = 5
    /\ rng = RngBase(0) /\ posts = {} /\ io = <<>> /\ session = 0
    /\ handler = "default" /\ lastreq = Zero

InitB ==
    /\ StartedB /\ pc = "write"
    /\ \E F \in FramesB, junk \in Bytes : cur = [F |-> F, junk |-> junk]
    /\ \E t \in ThresholdsB :
          mitm = [Cleared EXCEPT !.state = STATE_PLAY, !.comptr = t]

\* the proxy writes the frame
WriteB ==
    /\ pc = "write"
    /\ mitm' = [mitm EXCEPT !.cs_tx = write_packet_bytes(cur.F, @, mitm.comptr)]
    /\ pc' = "read"
    /\ UNCHANGED <<proc, why, cur, conns, nextfd, rng, posts, io, session,
                   handler, lastreq>>

\* the bytes come back, alone or with the start of a next frame behind them
ReadB ==
    /\ pc = "read"
    /\ \E next \in {<<>>, <<7, 1>>} :
          LET got == ExtractBytes(mitm.cs_tx \o next, mitm.comptr, cur.junk)
          IN  /\ io' = <<[op |-> "decoded", next |-> next] @@ got>>
              /\ proc' = got.proc
    /\ mitm' = [mitm EXCEPT !.cs_tx = <<>>]
    /\ pc' = "done"
    /\ UNCHANGED <<why, cur, conns, nextfd, rng, posts, session, handler,
                   lastreq>>

NextB == WriteB \/ ReadB

SpecB == InitB /\ [][NextB]_vars

----------------------------------------------------------------------------
\* print_hex: the text of a digest

MaxDigestLen == 3
DigestBytes == {0, 1, 127, 128, 255}
RECURSIVE Digests(_)
Digests(n) ==
    IF n = 0 THEN {<<>>}
    ELSE LET shorter == Digests(n - 1)
         IN  shorter \cup {Append(d, b) : d \in {x \in shorter : Len(x) = n - 1},
                                          b \in DigestBytes}

\* the character '-' of a text; the other characters are the hex digits
\* 0..15
Minus == -1

\* sprintf(w, "%02x", (unsigned char)d)
TwoHex(b) == <<b \div 16, b % 16>>

RECURSIVE HexText(_)
HexText(bytes) ==
    IF bytes = <<>> THEN <<>> ELSE TwoHex(Head(bytes)) \o HexText(Tail(bytes))

\* while(*z == '0') z++
RECURSIVE SkipZeros(_)
SkipZeros(t) == IF t # <<>> /\ Head(t) = 0 THEN SkipZeros(Tail(t)) ELSE t

\* the byte print_hex prints for data[i] when the sign flag is set: d = -d,
\* and d-- for every byte but the last, then the cast to unsigned char
Negated(d, last) == IF last THEN (256 - d) % 256 ELSE (255 - d) % 256

\* print_hex(buf, data, len).  data points to char: data[0] < 0 holds for a
\* byte of 128 and more where char is signed, and never where it is unsigned
print_hex(data, char_signed) ==
    LET f == char_signed /\ data[1] >= 128
        out == [i \in 1..Len(data) |->
                   IF f THEN Negated(data[i], i = Len(data)) ELSE data[i]]
    IN  (IF f THEN <<Minus>> ELSE <<>>) \o SkipZeros(HexText(out))

InitP ==
    /\ StartedB /\ pc = "digest" /\ mitm = Cleared
    /\ \E d \in Digests(MaxDigestLen) \ {<<>>}, sgn \in BOOLEAN :
          cur = [md |-> d, char_signed |-> sgn]

\* query_auth_server formats the digest
PrintHex ==
    /\ pc = "digest"
    /\ io' = <<[op |-> "print_hex", auth |-> print_hex(cur.md, cur.char_signed)]>>
    /\ pc' = "done"
    /\ UNCHANGED <<proc, why, cur, mitm, conns, nextfd, rng, posts, session,
                   handler, lastreq>>

NextP == PrintHex

SpecP == InitP /\ [][NextP]_vars

----------------------------------------------------------------------------
\* main and proxy_pump: start-up, the event loop and the way out.  cur holds
\* what the environment answers at start-up; io is the log of the signals
\* delivered, of what the loop does after a signal, and of the exit.  The
\* handlers are reduced to what they do to the phase and to the capture
\* file.

MaxSignals == 2
MaxLog == 8
Answers == {"ok", "fail"}

\* signal_handler has run
signal_caught(log) == \E i \in DOMAIN log : log[i].op = "SIGINT"

\* LH_ERROR(code, ...): the message is printed and the function returns code
LH_ERROR(code) == code

\* the log grows once the signal is caught
Logged(log, e) ==
    IF signal_caught(log) /\ Len(log) < MaxLog THEN Append(log, e) ELSE log

InitM ==
    /\ StartedB /\ pc = "main" /\ mitm = Cleared
    /\ \E d, s, w, a \in Answers :
          cur = [dns |-> d, ss |-> s, ws |-> w, sigaction |-> a]

\* the process ends with the value main returns
Exits(code) ==
    /\ proc' = "exited"
    /\ pc' = "exit"
    /\ io' = Append(io, [op |-> "exit", code |-> code])

\* main: lh_dns_addr_ipv4
Resolve ==
    /\ proc = "running" /\ pc = "main"
    /\ IF cur.dns = "fail"
       THEN Exits(LH_ERROR(-1))
       ELSE pc' = "proxy_pump" /\ UNCHANGED <<proc, io>>
    /\ UNCHANGED <<why, cur, mitm, conns, nextfd, rng, posts, session,
                   handler, lastreq>>

\* what proxy_pump returns before it reaches the loop, Zero when it gets there
PumpFailure(env) ==
    IF env.ss = "fail" THEN V(-1)
    ELSE IF env.ws = "fail" THEN V(-1)
    ELSE IF env.sigaction = "fail" THEN V(LH_ERROR(1))
    ELSE Zero

\* proxy_pump up to the loop.  main calls it as a statement and returns 0
PumpInit ==
    /\ proc = "running" /\ pc = "proxy_pump"
    /\ mitm' = [Cleared EXCEPT !.cs = -1, !.ms = -1]
    /\ IF PumpFailure(cur) # Zero
       THEN /\ proc' = "exited"
            /\ pc' = "exit"
            /\ io' = io \o <<[op |-> "return", code |-> PumpFailure(cur).v],
                             [op |-> "exit", code |-> 0]>>
       ELSE pc' = "while" /\ UNCHANGED <<proc, io>>
    /\ UNCHANGED <<why, cur, conns, nextfd, rng, posts, session, handler,
                   lastreq>>

\* SIGINT is delivered, at any point of the run
Signal ==
    /\ proc = "running"
    /\ Cardinality({i \in DOMAIN io : io[i].op = "SIGINT"}) < MaxSignals
    /\ io' = Append(io, [op |-> "SIGINT"])
    /\ UNCHANGED <<proc, why, pc, cur, mitm, conns, nextfd, rng, posts,
                   session, handler, lastreq>>

\* a variant of the loop condition that is always true
LoopOn_Forever(log) == TRUE

\* while(!signal_caught)
LoopOn(log) == ~signal_caught(log)

LoopTest ==
    /\ proc = "running" /\ pc = "while"
    /\ IF LoopOn(io)
       THEN pc' = "lh_poll" /\ io' = Logged(io, [op |-> "iteration"])
       ELSE pc' = "Terminating" /\ io' = io
    /\ UNCHANGED <<proc, why, cur, mitm, conns, nextfd, rng, posts, session,
                   handler, lastreq>>

\* lh_poll(&pa, 1000) returns, at the latest after a second
Poll ==
    /\ proc = "running" /\ pc = "lh_poll"
    /\ pc' = "handlers"
    /\ io' = Logged(io, [op |-> "lh_poll"])
    /\ UNCHANGED <<proc, why, cur, mitm, conns, nextfd, rng, posts, session,
                   handler, lastreq>>

\* handle_server as far as the capture file goes: the context is cleared and
\* a new file is opened; when that fails the call returns before the sockets
\* are stored
Accepts ==
    /\ proc = "running" /\ pc = "handlers"
    /\ \E opened \in {0, 1} :
          mitm' = IF opened = 1
                  THEN [Cleared EXCEPT !.output = 1, !.cs = 5, !.ms = 6,
                                       !.comptr = -1]
                  ELSE Cleared
    /\ UNCHANGED <<proc, why, pc, cur, conns, nextfd, rng, posts, io, session,
                   handler, lastreq>>

\* handle_proxy as far as the phase goes
Proxies ==
    /\ proc = "running" /\ pc = "handlers"
    /\ mitm.cs > 0
    /\ \E s \in {STATE_IDLE, STATE_STATUS, STATE_LOGIN, STATE_PLAY} :
          mitm' = [mitm EXCEPT !.state = s]
    /\ UNCHANGED <<proc, why, pc, cur, conns, nextfd, rng, posts, io, session,
                   handler, lastreq>>

\* the iteration is over
EndIteration ==
    /\ proc = "running" /\ pc = "handlers"
    /\ pc' = "while"
    /\ UNCHANGED <<proc, why, cur, mitm, conns, nextfd, rng, posts, io,
                   session, handler, lastreq>>

\* after the loop: the capture file is flushed and closed, main returns 0
Terminating ==
    /\ proc = "running" /\ pc = "Terminating"
    /\ mitm' = [mitm EXCEPT !.output = 0]
    /\ proc' = "exited"
    /\ pc' = "exit"
    /\ io' = (IF mitm.output # 0 THEN Append(io, [op |-> "fclose"]) ELSE io)
             \o <<[op |-> "exit", code |-> 0]>>
    /\ UNCHANGED <<why, cur, conns, nextfd, rng, posts, session, handler,
                   lastreq>>

NextM ==
    \/ Resolve
    \/ PumpInit
    \/ Signal
    \/ LoopTest
    \/ Poll
    \/ Accepts
    \/ Proxies
    \/ EndIteration
    \/ Terminating

SpecM == InitM /\ [][NextM]_vars

\* the loop goes on, and a signal is delivered in the end
PumpRuns ==
    Resolve \/ PumpInit \/ LoopTest \/ Poll \/ EndIteration \/ Terminating

SpecMF == SpecM /\ WF_vars(PumpRuns)

----------------------------------------------------------------------------
\* The extraction loop of handle_proxy when a frame arrives in pieces.  cur
\* is the frame the client sends, by the length its prefix announces, and
\* the number of its bytes that have arrived; mitm.cs_rx is the number of
\* bytes in the decoded receive buffer.

MAXPLEN == 4 * 1024 * 1024
MaxReads == 4
LensX == {2, 300, MAXPLEN, MAXPLEN + 1, 2 * MAXPLEN}
ChunksX == {1, 128, MAXPLEN}

\* the prefix of the frame and the bytes of the frame on the wire
PrefixX(plen) == lh_place_varint(plen)
TotalX(plen) == Len(PrefixX(plen)) + plen

\* the loop over a buffer of have bytes that starts with the frame
ExtractX(have, plen) ==
    LET ll == Len(PrefixX(plen))
    IN  IF have = 0 \/ (PrefixX(plen)[1] >= 128 /\ have < 129)
           \/ plen + ll > have
        THEN [dispatched |-> FALSE, rx |-> have]
        ELSE [dispatched |-> TRUE, rx |-> have - (ll + plen)]

InitX ==
    /\ StartedB /\ pc = "poll"
    /\ \E s \in {STATE_LOGIN, STATE_PLAY} :
          mitm = [Cleared EXCEPT !.state = s, !.cs = 5, !.ms = 6,
                                 !.output = 1, !.comptr = -1]
    /\ \E plen \in LensX : cur = [plen |-> plen, sent |-> 0]

\* handle_proxy for n more bytes of the frame
ReadX ==
    /\ proc = "running" /\ pc = "poll"
    /\ Len(io) < MaxReads
    /\ cur.sent < TotalX(cur.plen)
    /\ \E n \in ChunksX :
          LET k == IF cur.sent + n > TotalX(cur.plen)
                   THEN TotalX(cur.plen) - cur.sent ELSE n
              got == ExtractX(mitm.cs_rx + k, cur.plen)
          IN  /\ cur' = [cur EXCEPT !.sent = @ + k]
              /\ mitm' = [mitm EXCEPT !.cs_rx = got.rx]
              /\ io' = Append(io, [op |-> "read", n |-> k,
                                   dispatched |-> got.dispatched])
    /\ UNCHANGED <<proc, why, pc, conns, nextfd, rng, posts, session, handler,
                   lastreq>>

NextX == ReadX

SpecX == InitX /\ [][NextX]_vars

----------------------------------------------------------------------------
\* The write path of handle_proxy over a socket that takes part of what it
\* is given.  The frames come from the client; mitm.cs_tx is the forward
\* buffer, in bytes; cur is the connection to the server with its write
\* buffer and the number of bytes the frames have brought so far; io is what
\* the socket has taken, in order.  The cursor of the cipher counts bytes
\* here.

MaxPlaced == 10
FrameLens == {2, 4}

\* AES_cfb8_encrypt in place: byte i of the data under the next position of
\* the stream
AES_cfb8_encrypt(data, key, iv) ==
    [i \in 1..Len(data) |-> [enc |-> data[i], key |-> key, at |-> iv.n + i]]

\* the bytes n frames' worth of data put behind what the buffer holds
PlacedW(tx, from, n) == tx \o [i \in 1..n |-> [b |-> from + i]]

\* a variant that leaves the buffer as it is after the hand-off
ResetW_Keeps(tx) == tx

\* tx->C(data) = tx->ridx = 0
ResetW(tx) == <<>>

\* lh_conn_write: the data is put behind what the connection still has to
\* write
lh_conn_write(wbuf, data) == wbuf \o data

\* write(2) on the non-blocking socket takes the first k bytes
Taken(wbuf, k) == SubSeq(wbuf, 1, k)
Residual(wbuf, k) == SubSeq(wbuf, k + 1, Len(wbuf))

InitW ==
    /\ StartedB /\ pc = "poll"
    /\ mitm = [Cleared EXCEPT !.state = STATE_LOGIN, !.cs = 5, !.ms = 6,
                              !.comptr = -1,
                              !.s_skey = [ext |-> "SK"], !.c_skey = [ext |-> "CK"]]
    /\ cur = [fd |-> 6, priv |-> 0, wbuf |-> <<>>, got |-> 0]

\* handle_proxy for frames of the client that are forwarded: they are put
\* in the forward buffer, the buffer is encrypted and handed to the
\* connection, and emptied; arm says that the call has armed the encryption
HandleProxyW ==
    /\ proc = "running" /\ pc = "poll"
    /\ \E n \in FrameLens, arm \in {0, 1} :
         /\ cur.got + n <= MaxPlaced
         /\ arm = 1 => mitm.encryption_active = 0
         /\ LET tx == PlacedW(mitm.cs_tx, cur.got, n)
                c == ForwardCipher(1)
                data == IF mitm.encryption_active = 1
                        THEN AES_cfb8_encrypt(tx, mitm[c.ctx], mitm[c.iv])
                        ELSE tx
                m1 == Crypted(c, Len(tx), mitm)
                m2 == [m1 EXCEPT !.cs_tx = ResetW(tx), !.enable_encryption = arm]
                wbuf == lh_conn_write(cur.wbuf, data)
            IN  \E k \in 0..Len(wbuf) :
                   /\ io' = io \o Taken(wbuf, k)
                   /\ cur' = [cur EXCEPT !.wbuf = Residual(wbuf, k), !.got = @ + n]
                   /\ mitm' = Activate(m2)
    /\ UNCHANGED <<proc, why, pc, conns, nextfd, rng, posts, session, handler,
                   lastreq>>

\* lh_conn_process when the socket is writable: more of the write buffer goes
WritableW ==
    /\ proc = "running" /\ pc = "poll"
    /\ cur.wbuf # <<>>
    /\ \E k \in 1..Len(cur.wbuf) :
          /\ io' = io \o Taken(cur.wbuf, k)
          /\ cur' = [cur EXCEPT !.wbuf = Residual(cur.wbuf, k)]
    /\ UNCHANGED <<proc, why, pc, mitm, conns, nextfd, rng, posts, session,
                   handler, lastreq>>

NextW == HandleProxyW \/ WritableW

SpecW == InitW /\ [][NextW]_vars

\* a socket that has room is written to
SpecWF == SpecW /\ WF_vars(WritableW)

----------------------------------------------------------------------------
\* process_packet over the selectors.  Both peers send frames of every type
\* the switch has a case for, with the type as it is and with a bit above
\* the 24 the selector keeps; the client names any next state in its
\* Handshake.  Each frame is sent alone, so a call of handle_proxy is one
\* dispatch followed by the flush; io is the log of the frames.

MaxFramesS == 3
HighBit == 16777216
NextStatesS == {STATE_STATUS, STATE_LOGIN, 16, 18}

\* the same frame with a type that differs above bit 23
Retyped(f) == <<V(Head(f).v + HighBit)>> \o Tail(f)

FramesS(is_client, m) ==
    LET fs == {Handshake(ns) : ns \in NextStatesS}
              \cup {SetCompression(3), LoginSuccess, Other}
              \cup (IF is_client = 1 THEN {GoodResponse(m)}
                    ELSE {EncryptionRequest("SPK")})
    IN  fs \cup {Retyped(f) : f \in fs}

\* the envelope of an uncompressed frame, once compression is on
WireS(fs, m) == IF m.comptr >= 0 THEN {<<V(0)>> \o f : f \in fs} ELSE fs

\* after handle_server
InitS ==
    /\ StartedB /\ pc = "poll" /\ cur = Zero
    /\ mitm = [Cleared EXCEPT !.output = 1, !.cs = 5, !.ms = 6,
                              !.cs_conn = [fd |-> 5, priv |-> 1],
                              !.ms_conn = [fd |-> 6, priv |-> 0],
                              !.comptr = -1]

\* handle_proxy for one frame outside the PLAY phase: process_packet, then
\* the buffers are sent off and the encryption is set up if it was armed
DispatchS ==
    /\ proc = "running" /\ pc = "poll"
    /\ mitm.state # STATE_PLAY
    /\ Len(io) < MaxFramesS
    /\ \E ic \in {0, 1} : \E f \in WireS(FramesS(ic, mitm), mitm) :
         LET ran == process_packet(ic, f, TxOf(ic), mitm, rng, posts)
         IN  /\ io' = Append(io, [op |-> "frame", is_client |-> ic, f |-> f,
                                  state |-> mitm.state, comptr |-> mitm.comptr,
                                  m0 |-> mitm, m1 |-> ran.m,
                                  out |-> Added(mitm, ran.m, TxOf(ic)),
                                  proc |-> ran.proc])
             /\ proc' = ran.proc
             /\ why' = ran.why
             /\ rng' = ran.rng
             /\ posts' = ran.posts
             /\ mitm' = Activate([ran.m EXCEPT !.cs_tx = <<>>, !.ms_tx = <<>>])
             /\ cur' = [fd |-> IF ic = 1 THEN 5 ELSE 6, priv |-> ic]
    /\ UNCHANGED <<pc, conns, nextfd, session, handler, lastreq>>

NextS == DispatchS

SpecS == InitS /\ [][NextS]_vars

----------------------------------------------------------------------------
\* The read path of handle_proxy over a byte stream that arrives in pieces.
\* cur holds the frames the client sends and the number of bytes of their
\* wire form that have arrived; mitm.cs_rx is the decoded receive buffer, in
\* bytes; io is the log of the frames dispatched.  The cursor of the cipher
\* counts bytes here.

MaxFramesC == 2
FramesC == {<<7>>, <<1, 200>>, LongFrame}
ChunksC == {1, 2, 3, 129, 131}

RECURSIVE StreamsC(_)
StreamsC(n) ==
    IF n = 0 THEN {<<>>}
    ELSE StreamsC(n - 1) \cup
         {Append(q, F) : q \in {x \in StreamsC(n - 1) : Len(x) = n - 1},
                         F \in FramesC}

\* the frames with their canonical length prefixes, one after the other
RECURSIVE PlainWire(_)
PlainWire(frames) ==
    IF frames = <<>> THEN <<>>
    ELSE lh_place_varint(Len(Head(frames))) \o Head(frames)
         \o PlainWire(Tail(frames))

\* what is on the wire: the bytes, under the cipher stream of the client
\* leg when encryption is active
OnWire(frames, m) ==
    IF m.encryption_active = 1
    THEN AES_cfb8_encrypt(PlainWire(frames), m.c_aes, IV(m.c_aes))
    ELSE PlainWire(frames)

\* AES_cfb8_encrypt(..., AES_DECRYPT): a byte comes out as it went in if
\* it is read at its position of the stream
AES_cfb8_decrypt(data, key, iv) ==
    [i \in 1..Len(data) |->
        IF data[i].key = key /\ data[i].at = iv.n + i THEN data[i].enc ELSE 255]

\* a variant of the rule with a larger limit
HeldBack_Longer(rx) == rx[1] >= 128 /\ Len(rx) < 140

\* large varint, data is definitely too short
HeldBack(rx) == rx[1] >= 128 /\ Len(rx) < 129

\* the extraction loop: the frames dispatched and what stays in the buffer
RECURSIVE ExtractLoop(_)
ExtractLoop(rx) ==
    IF rx = <<>> \/ HeldBack(rx) THEN [out |-> <<>>, rx |-> rx]
    ELSE LET plen == lh_read_varint(rx, 1)
             end == plen.ll + plen.v
         IN  IF end > Len(rx) THEN [out |-> <<>>, rx |-> rx]
             ELSE LET r == ExtractLoop(SubSeq(rx, end + 1, Len(rx)))
                  IN  [out |-> <<SubSeq(rx, plen.ll + 1, end)>> \o r.out,
                       rx |-> r.rx]

InitC ==
    /\ StartedB /\ pc = "poll"
    /\ \E a \in {0, 1} :
          mitm = [Cleared EXCEPT !.state = STATE_PLAY, !.cs = 5, !.ms = 6,
                                 !.comptr = -1, !.cs_rx = <<>>,
                                 !.encryption_active = a,
                                 !.c_aes = [ext |-> "CK"],
                                 !.c_dec_iv = IV([ext |-> "CK"])]
    /\ \E frames \in StreamsC(MaxFramesC) \ {<<>>} :
          cur = [frames |-> frames, sent |-> 0]

\* handle_proxy for the next n bytes of the client: they are decrypted
\* behind what the decoded buffer holds, and the loop runs
ReadC ==
    /\ proc = "running" /\ pc = "poll"
    /\ \E n \in ChunksC :
         LET wire == OnWire(cur.frames, mitm)
             k == IF cur.sent + n > Len(wire) THEN Len(wire) - cur.sent ELSE n
             sptr == SubSeq(wire, cur.sent + 1, cur.sent + k)
             c == ReadCipher(1)
             got == IF mitm.encryption_active = 1
                    THEN AES_cfb8_decrypt(sptr, mitm[c.ctx], mitm[c.iv])
                    ELSE sptr
             ran == ExtractLoop(mitm.cs_rx \o got)
         IN  /\ k > 0
             /\ cur' = [cur EXCEPT !.sent = @ + k]
             /\ mitm' = [Crypted(c, k, mitm) EXCEPT !.cs_rx = ran.rx]
             /\ io' = io \o [i \in 1..Len(ran.out) |->
                                [op |-> "frame", f |-> ran.out[i]]]
    /\ UNCHANGED <<proc, why, pc, conns, nextfd, rng, posts, session, handler,
                   lastreq>>

NextC == ReadC

SpecC == InitC /\ [][NextC]_vars

----------------------------------------------------------------------------
\* handle_server with the ways it can fail.  cur.open is the set of open
\* descriptors of the process (0 is the standard input), io the log of the
\* last call: what became of the accept, and the descriptors closed.

MaxAccepts == 3
Outcomes == {"ok", "connect", "fopen"}

InitA ==
    /\ StartedB /\ pc = "poll"
    /\ mitm = [Cleared EXCEPT !.cs = -1, !.ms = -1]
    /\ cur = [open |-> {0, 1, 2, 3, 4}]

\* close(fd)
Closed(open, fds) == open \ fds
CloseLog(fds) == [i \in 1..Len(fds) |-> [op |-> "close", fd |-> fds[i]]]

\* a client connects and lh_connect_tcp4 or fopen fails, or neither
AcceptA ==
    /\ proc = "running" /\ pc = "poll"
    /\ nextfd + 1 < 5 + 2 * MaxAccepts
    /\ \E o \in Outcomes :
         LET cs == nextfd
             ms == nextfd + 1
             cc == [fd |-> cs, priv |-> 1]
             mc == [fd |-> ms, priv |-> 0]
         IN  /\ io' = <<[op |-> "accept", outcome |-> o, cs |-> cs]>>
                      \o (IF o = "connect" THEN CloseLog(<<mitm.cs>>)
                          ELSE IF o = "fopen"
                          THEN CloseLog(<<CLEAR(mitm).ms, CLEAR(mitm).cs>>)
                          ELSE <<>>)
             /\ IF o = "connect"
                THEN /\ cur' = [cur EXCEPT !.open = Closed(@ \cup {cs}, {mitm.cs})]
                     /\ nextfd' = nextfd + 1
                     /\ UNCHANGED <<mitm, conns>>
                ELSE IF o = "fopen"
                THEN /\ cur' = [cur EXCEPT !.open =
                                   Closed(@ \cup {cs, ms},
                                          {CLEAR(mitm).ms, CLEAR(mitm).cs})]
                     /\ nextfd' = nextfd + 2
                     /\ mitm' = CLEAR(mitm)
                     /\ UNCHANGED conns
                ELSE /\ cur' = [cur EXCEPT !.open = @ \cup {cs, ms}]
                     /\ nextfd' = nextfd + 2
                     /\ mitm' = [CLEAR(mitm) EXCEPT !.output = 1,
                                                    !.cs = cs, !.ms = ms,
                                                    !.cs_conn = cc, !.ms_conn = mc,
                                                    !.comptr = -1]
                     /\ conns' = conns \cup {cc, mc}
    /\ UNCHANGED <<proc, why, pc, rng, posts, session, handler, lastreq>>

\* handle_proxy as far as the phase and the threshold go
ProxiesA ==
    /\ proc = "running" /\ pc = "poll"
    /\ mitm.cs_conn \in conns
    /\ \E s \in {STATE_STATUS, STATE_LOGIN, STATE_PLAY}, t \in {-1, 3} :
          /\ <<s, t>> # <<mitm.state, mitm.comptr>>
          /\ mitm' = [mitm EXCEPT !.state = s, !.comptr = t]
    /\ io' = <<>>
    /\ UNCHANGED <<proc, why, pc, cur, conns, nextfd, rng, posts, session,
                   handler, lastreq>>

\* lines 510-524: a peer of the session has closed
EOFA ==
    /\ proc = "running" /\ pc = "poll"
    /\ \E c \in conns :
          /\ mitm' = [mitm EXCEPT !.state = STATE_IDLE, !.cs = -1, !.ms = -1,
                                  !.comptr = -1]
          /\ conns' = conns \ {mitm.cs_conn, mitm.ms_conn}
          /\ cur' = [cur EXCEPT !.open = Closed(@, {mitm.cs, mitm.ms})]
          /\ io' = CloseLog(<<mitm.cs, mitm.ms>>)
    /\ UNCHANGED <<proc, why, pc, nextfd, rng, posts, session, handler, lastreq>>

NextA == AcceptA \/ ProxiesA \/ EOFA

SpecA == InitA /\ [][NextA]_vars

\* ---------------------------------------------------------------------
\* Entity metadata (entity.c): write_metadata and read_metadata on bytes.
\* A metadata set is the array of 32 entries that read_metadata allocates;
\* an entry that is not present has the type META_NONE.

META_BYTE == 0
META_VARINT == 1
META_BOOL == 7
META_POS == 9
META_OPTPOS == 10
META_BID == 13
META_NONE == 255

NoEntry == [key |-> 0, type |-> META_NONE, val |-> 0]

\* the values an entry of the set can hold: a byte, a varint of one and of
\* two bytes, a boolean, a position, an optional position with and without
\* a position (-1), a block id of one and of two varint bytes
EntriesE(k) ==
    {NoEntry}
    \cup {[key |-> k, type |-> META_BYTE, val |-> v] : v \in {0, 200}}
    \cup {[key |-> k, type |-> META_VARINT, val |-> v] : v \in {1, 300}}
    \cup {[key |-> k, type |-> META_BOOL, val |-> v] : v \in {0, 1}}
    \cup {[key |-> k, type |-> META_POS, val |-> v] : v \in {5}}
    \cup {[key |-> k, type |-> META_OPTPOS, val |-> v] : v \in {-1, 5}}
    \cup {[key |-> k, type |-> META_BID, val |-> v] : v \in {1, 200}}

MetaSets ==
    {[k \in 0..31 |-> IF k = 0 THEN a ELSE IF k = 1 THEN b ELSE NoEntry] :
        a \in EntriesE(0), b \in EntriesE(1)}

\* write_char: the low eight bits
write_char(v) == <<v % 256>>

\* write_long: eight bytes, high byte first, of a 64-bit value; the values
\* of the model are -1 and the numbers below 2^24
write_long(v) ==
    IF v < 0 THEN <<255, 255, 255, 255, 255, 255, 255, 255>>
    ELSE <<0, 0, 0, 0, 0, (v \div 65536) % 256, (v \div 256) % 256, v % 256>>

\* read_long of the eight bytes at i
read_long(p, i) ==
    IF \A j \in 0..7 : p[i + j] = 255 THEN -1
    ELSE p[i + 5] * 65536 + p[i + 6] * 256 + p[i + 7]

\* META_OPTPOS in write_metadata: bool = (mm->pos.p == -1)
write_optpos(v) ==
    write_char(IF v = -1 THEN 1 ELSE 0) \o (IF v = -1 THEN write_long(v) ELSE <<>>)

\* the bytes of one entry's value in write_metadata
write_value(mm) ==
    CASE mm.type = META_BYTE   -> write_char(mm.val)
      [] mm.type = META_VARINT -> lh_place_varint(mm.val)
      [] mm.type = META_BOOL   -> write_char(mm.val)
      [] mm.type = META_POS    -> write_long(mm.val)
      [] mm.type = META_OPTPOS -> write_optpos(mm.val)
      [] mm.type = META_BID    -> write_char(mm.val)
      [] OTHER                 -> <<>>

\* write_metadata: the present entries in the order of the array, each as
\* key, type and value, then the terminator 0xff
RECURSIVE write_entries(_, _)
write_entries(meta, i) ==
    IF i > 31 THEN <<>>
    ELSE (IF meta[i].type = META_NONE THEN <<>>
          ELSE write_char(meta[i].key) \o lh_place_varint(meta[i].type)
                   \o write_value(meta[i]))
         \o write_entries(meta, i + 1)

write_metadata(meta) == write_entries(meta, 0) \o <<255>>

\* a varint read at i that ends inside p: a byte without the top bit follows
RECURSIVE VarintAt(_, _)
VarintAt(p, i) ==
    /\ i <= Len(p)
    /\ (p[i] < 128 \/ VarintAt(p, i + 1))

\* the value of one entry in read_metadata: what it is and the bytes it
\* took, or ok = FALSE when the read runs past the bytes that were written
read_value(p, i, type) ==
    LET none == [ok |-> FALSE, val |-> 0, n |-> 0]
        char == IF i <= Len(p) THEN [ok |-> TRUE, val |-> p[i], n |-> 1]
                ELSE none
        varint == IF VarintAt(p, i)
                  THEN [ok |-> TRUE, val |-> lh_read_varint(p, i).v,
                        n |-> lh_read_varint(p, i).ll]
                  ELSE none
        long(j, k) == IF j + 7 <= Len(p)
                      THEN [ok |-> TRUE, val |-> read_long(p, j), n |-> k + 8]
                      ELSE none
    IN  CASE type = META_BYTE   -> char
          [] type = META_VARINT -> varint
          [] type = META_BOOL   -> char
          [] type = META_POS    -> long(i, 0)
          [] type = META_OPTPOS ->
                IF ~char.ok THEN none
                ELSE IF char.val # 0 THEN long(i + 1, 1)
                ELSE [ok |-> TRUE, val |-> -1, n |-> 1]
          [] type = META_BID    -> varint
          [] OTHER              -> [ok |-> TRUE, val |-> 0, n |-> 0]

\* read_metadata from position i on, m being the set read so far: the set,
\* "abort" for the assert on the key, "overrun" for a read past the bytes
\* that were written (what is read there is not defined)
RECURSIVE read_entries(_, _, _)
read_entries(p, i, m) ==
    IF i > Len(p) THEN [end |-> "overrun", m |-> m]
    ELSE IF p[i] = 255 THEN [end |-> "ok", m |-> m]
    ELSE IF p[i] >= 32 THEN [end |-> "abort", m |-> m]
    ELSE IF ~VarintAt(p, i + 1) THEN [end |-> "overrun", m |-> m]
    ELSE LET key == p[i]
             t == lh_read_varint(p, i + 1)
             r == read_value(p, i + 1 + t.ll, t.v)
         IN  IF ~r.ok THEN [end |-> "overrun", m |-> m]
             ELSE read_entries(p, i + 1 + t.ll + r.n,
                      [m EXCEPT ![key] = [key |-> key, type |-> t.v,
                                          val |-> r.val]])

read_metadata(p) == read_entries(p, 1, [k \in 0..31 |-> NoEntry])

\* Specification SpecE: a metadata set is written and read back.
InitE ==
    /\ StartedB
    /\ pc = "write"
    /\ mitm = Cleared
    /\ \E m \in MetaSets : cur = [meta |-> m]

WriteE ==
    /\ pc = "write"
    /\ pc' = "read"
    /\ io' = <<[op |-> "write_metadata", w |-> write_metadata(cur.meta)]>>
    /\ UNCHANGED <<proc, why, cur, mitm, conns, nextfd, rng, posts, session,
                   handler, lastreq>>

ReadE ==
    /\ pc = "read"
    /\ pc' = "done"
    /\ io' = io \o <<[op |-> "read_metadata", w |-> io[1].w,
                      back |-> read_metadata(io[1].w)]>>
    /\ UNCHANGED <<proc, why, cur, mitm, conns, nextfd, rng, posts, session,
                   handler, lastreq>>

NextE == WriteE \/ ReadE
SpecE == InitE /\ [][NextE]_vars

\* ---------------------------------------------------------------------
\* Entity metadata on the heap (entity.c): clone_metadata, update_metadata
\* and free_metadata. A set has one entry whose value lives in a heap
\* object: a slot, an NBT tree or a string; ptr = 0 is the NULL pointer.

META_STRING == 3
META_CHAT == 4
META_OPTCHAT == 5
META_SLOT == 6
META_NBT == 14

MaxObjects == 4
Objects == 1..MaxObjects
HeapTypes == {META_SLOT, META_NBT, META_STRING, META_CHAT, META_OPTCHAT}
NoSet == [there |-> FALSE, type |-> META_NONE, ptr |-> 0]

\* malloc: an object that was not in use so far
Unused(heap) == {o \in Objects : heap[o] = "none"}
Alloc(heap) == CHOOSE o \in Unused(heap) : \A q \in Unused(heap) : o <= q

\* strdup, nbt_clone, clone_slot: a new object with the contents of src;
\* the read of src is an event
Dup(src, heap) ==
    [ptr |-> Alloc(heap),
     heap |-> [heap EXCEPT ![Alloc(heap)] = "live"],
     ev |-> <<[op |-> "read", obj |-> src, was |-> heap[src]]>>]

\* lh_free, nbt_free, clear_slot: the object is released; NULL is left alone
Release(ptr, heap) ==
    IF ptr = 0 THEN [heap |-> heap, ev |-> <<>>]
    ELSE [heap |-> [heap EXCEPT ![ptr] = "freed"],
          ev |-> <<[op |-> "free", obj |-> ptr, was |-> heap[ptr]]>>]

\* clone_metadata: the array is copied with memmove, then the value of a
\* SLOT, NBT, STRING or CHAT entry is duplicated; no other type has a case
clone_metadata(meta, heap) ==
    IF meta.type \in {META_SLOT, META_NBT, META_STRING, META_CHAT}
    THEN LET d == Dup(meta.ptr, heap)
         IN  [set |-> [meta EXCEPT !.ptr = d.ptr], heap |-> d.heap, ev |-> d.ev]
    ELSE [set |-> meta, heap |-> heap, ev |-> <<>>]

\* update_metadata with an update of the entry's type: the old value is
\* released, the value of the update duplicated
update_metadata(meta, upd, heap) ==
    IF upd.type = META_NONE \/ meta.type # upd.type
    THEN [set |-> meta, heap |-> heap, ev |-> <<>>]
    ELSE LET r == Release(meta.ptr, heap)
             d == Dup(upd.ptr, r.heap)
         IN  [set |-> [meta EXCEPT !.ptr = d.ptr], heap |-> d.heap,
              ev |-> r.ev \o d.ev]

\* free_metadata: the value of a SLOT, NBT, STRING, CHAT or OPTCHAT entry is
\* released, then the array
free_metadata(meta, heap) ==
    LET r == Release(meta.ptr, heap)
    IN  [set |-> NoSet, heap |-> r.heap, ev |-> r.ev]

\* an event on an object that is not live: the behaviour is not defined,
\* the process is taken down by the allocator or goes on
Undefined(ev) == \E k \in 1..Len(ev) : ev[k].was # "live"
AfterD(r) ==
    /\ io' = r.ev
    /\ IF Undefined(r.ev) THEN proc' \in {"running", "aborted"}
       ELSE proc' = proc

\* Specification SpecD: one set with one entry, its clone, and the calls
\* an entity makes on them. Object 1 is the value of the original, object
\* MaxObjects the value of the update that comes with a packet.
InitD ==
    /\ StartedB
    /\ pc = "poll"
    /\ mitm = Cleared
    /\ \E t \in HeapTypes :
          cur = [type |-> t,
                 orig |-> [there |-> TRUE, type |-> t, ptr |-> 1],
                 clone |-> NoSet,
                 heap |-> [o \in Objects |->
                              IF o \in {1, MaxObjects} THEN "live" ELSE "none"]]

CloneD ==
    /\ proc = "running"
    /\ cur.orig.there /\ ~cur.clone.there
    /\ Unused(cur.heap) # {}
    /\ LET r == clone_metadata(cur.orig, cur.heap)
       IN  /\ cur' = [cur EXCEPT !.clone = r.set, !.heap = r.heap]
           /\ AfterD(r)
    /\ UNCHANGED <<why, pc, mitm, conns, nextfd, rng, posts, session,
                   handler, lastreq>>

UpdateD ==
    /\ proc = "running"
    /\ Unused(cur.heap) # {}
    /\ \E w \in {"orig", "clone"} :
          /\ cur[w].there
          /\ LET upd == [there |-> TRUE, type |-> cur[w].type,
                         ptr |-> MaxObjects]
                 r == update_metadata(cur[w], upd, cur.heap)
             IN  /\ cur' = [cur EXCEPT ![w] = r.set, !.heap = r.heap]
                 /\ AfterD(r)
    /\ UNCHANGED <<why, pc, mitm, conns, nextfd, rng, posts, session,
                   handler, lastreq>>

FreeD ==
    /\ proc = "running"
    /\ \E w \in {"orig", "clone"} :
          /\ cur[w].there
          /\ LET r == free_metadata(cur[w], cur.heap)
             IN  /\ cur' = [cur EXCEPT ![w] = r.set, !.heap = r.heap]
                 /\ AfterD(r)
    /\ UNCHANGED <<why, pc, mitm, conns, nextfd, rng, posts, session,
                   handler, lastreq>>

NextD == CloneD \/ UpdateD \/ FreeD
SpecD == InitD /\ [][NextD]_vars

\* ---------------------------------------------------------------------
\* The build planner (mcp_build.c): the build structure with the plan, the
\* task, the active flag and the boundary of the task, and the commands of
\* build_cmd. A block is its coordinates and its material; of the state
\* that build_update keeps per block only buildable[0] is kept here.

MaxSize == 2
MAT == 4
SizesF == {<<xs, zs>> : xs \in 0..MaxSize, zs \in 0..MaxSize}
\* coord=<x>,<z>,<y>
PivotsF == {<<0, 0, 0>>, <<5, -3, 64>>, <<-2, 7, 1>>}

MIN(x, y) == IF x < y THEN x ELSE y
MAX(x, y) == IF x > y THEN x ELSE y

\* a variant that leaves the task in place
build_cancel_KeepsTask(build) ==
    [build EXCEPT !.active = 0, !.buildable = -1]

\* build_cancel
build_cancel(build) ==
    [build EXCEPT !.active = 0, !.task = <<>>, !.buildable = -1]

\* build_clear
build_clear(build) == [build_cancel(build) EXCEPT !.plan = <<>>]

\* the plan of build_floor: x runs in the outer loop, z in the inner one
FloorPlan(xsize, zsize) ==
    [i \in 1..(xsize * zsize) |->
        [x |-> (i - 1) \div zsize, y |-> 0, z |-> -((i - 1) % zsize),
         b |-> MAT]]

\* build_floor; size is <<>> when scan_opt does not find two numbers
build_floor(build, size) ==
    LET cleared == build_clear(build)
    IN  IF size = <<>>
        THEN [build |-> cleared,
              reply |-> "Usage: build floor size=<xsize>,<zsize>"]
        ELSE IF size[1] <= 0 \/ size[2] <= 0
        THEN [build |-> cleared, reply |-> ""]
        ELSE [build |-> [cleared EXCEPT !.plan = FloorPlan(size[1], size[2])],
              reply |-> "Created floor"]

\* the boundary loop of build_place over the blocks 1..n of the task
RECURSIVE Boundary(_, _, _)
Boundary(task, n, acc) ==
    IF n > Len(task) THEN acc
    ELSE Boundary(task, n + 1,
             [xmin |-> MIN(acc.xmin, task[n].x), xmax |-> MAX(acc.xmax, task[n].x),
              ymin |-> MIN(acc.ymin, task[n].y), ymax |-> MAX(acc.ymax, task[n].y),
              zmin |-> MIN(acc.zmin, task[n].z), zmax |-> MAX(acc.zmax, task[n].z)])

\* build_update: the flags of the blocks are worked out again; with no
\* block near the player (near = FALSE) the buildable list is emptied
build_update(build, near) ==
    IF build.active = 0 THEN build
    ELSE IF ~near THEN [build EXCEPT !.buildable = -1]
    ELSE build

\* build_place; coord is <<>> when scan_opt does not find three numbers
build_place(build, coord, near) ==
    IF build.plan = <<>>
    THEN [build |-> build, reply |-> "You have no active buildplan!"]
    ELSE IF coord = <<>>
    THEN [build |-> build, reply |-> "Usage: build place coord=<x>,<z>,<y>"]
    ELSE LET px == coord[1]
             pz == coord[2]
             py == coord[3]
             cancelled == build_cancel(build)
             task == cancelled.task \o
                     [i \in 1..Len(build.plan) |->
                         [x |-> build.plan[i].x + px, y |-> build.plan[i].y + py,
                          z |-> build.plan[i].z + pz, b |-> build.plan[i].b]]
             first == [xmin |-> task[1].x, xmax |-> task[1].x,
                       ymin |-> task[1].y, ymax |-> task[1].y,
                       zmin |-> task[1].z, zmax |-> task[1].z]
             bnd == Boundary(task, 1, first)
         IN  [build |-> build_update(
                          [cancelled EXCEPT !.task = task, !.active = 1,
                               !.xmin = bnd.xmin, !.xmax = bnd.xmax,
                               !.ymin = bnd.ymin, !.ymax = bnd.ymax,
                               !.zmin = bnd.zmin, !.zmax = bnd.zmax], near),
              reply |-> "Place pivot"]

\* chat_message(reply, cq, "green", 0) when there is a reply
ChatF(reply) == IF reply # "" THEN <<[op |-> "chat", text |-> reply]>> ELSE <<>>

\* Specification SpecF: the commands of build_cmd, one after the other.
InitF ==
    /\ StartedB
    /\ pc = "poll"
    /\ mitm = Cleared
    /\ cur = [active |-> 0, task |-> <<>>, plan |-> <<>>, buildable |-> 0,
              xmin |-> 0, xmax |-> 0, ymin |-> 0, ymax |-> 0,
              zmin |-> 0, zmax |-> 0]

\* build floor ...
FloorF ==
    /\ \E size \in SizesF \cup {<<>>} :
          LET r == build_floor(cur, size)
          IN  /\ cur' = r.build
              /\ io' = ChatF(r.reply)
              /\ lastreq' = [cmd |-> "floor", arg |-> size]
    /\ UNCHANGED <<proc, why, pc, mitm, conns, nextfd, rng, posts, session,
                   handler>>

\* build place ...
PlaceF ==
    /\ \E coord \in PivotsF \cup {<<>>}, near \in BOOLEAN :
          LET r == build_place(cur, coord, near)
          IN  /\ cur' = r.build
              /\ io' = ChatF(r.reply)
              /\ lastreq' = [cmd |-> "place", arg |-> coord]
    /\ UNCHANGED <<proc, why, pc, mitm, conns, nextfd, rng, posts, session,
                   handler>>

\* build cancel
CancelF ==
    /\ cur' = build_cancel(cur)
    /\ io' = <<>>
    /\ lastreq' = [cmd |-> "cancel", arg |-> <<>>]
    /\ UNCHANGED <<proc, why, pc, mitm, conns, nextfd, rng, posts, session,
                   handler>>

\* build, build dumpplan, build dumptask and any other word
OtherF ==
    /\ \E w \in {"", "dumpplan", "dumptask", "other"} :
          /\ io' = ChatF(IF w = ""
                         THEN "Usage: build <type> [ parameters ... ] or build cancel"
                         ELSE "")
          /\ lastreq' = [cmd |-> w, arg |-> <<>>]
    /\ UNCHANGED <<proc, why, pc, cur, mitm, conns, nextfd, rng, posts,
                   session, handler>>

NextF == FloorF \/ PlaceF \/ CancelF \/ OtherF
SpecF == InitF /\ [][NextF]_vars

----------------------------------------------------------------------------
\* What a call of handle_proxy did, read off io

Frames == {i \in DOMAIN io : io[i].op = "frame"}
Writes == {i \in DOMAIN io : io[i].op = "write"}
WritesOf(log) == SelectSeq(log, LAMBDA e : e.op = "write")

\* the messages of the fatal crypto-integrity errors
TokenMismatch == "Token does not match!"
CryptoFailures ==
    {"Failed to decode the server's public key",
     "Failed to decrypt the shared key received from the client",
     "Failed to decrypt the verification token received from the client",
     TokenMismatch}

\* a frame of the client processed as EncryptionResponse in the LOGIN phase
IsResponseEvent(e) ==
    /\ e.op = "frame" /\ e.is_client = 1 /\ e.state = STATE_LOGIN
    /\ e.proc # "abort"
    /\ TypeOf(e.f, e.comptr) = PID_EncryptionResponse

\* a frame of the server processed as EncryptionRequest in the LOGIN phase
IsRequestEvent(e) ==
    /\ e.op = "frame" /\ e.is_client = 0 /\ e.state = STATE_LOGIN
    /\ e.proc # "abort"
    /\ TypeOf(e.f, e.comptr) = PID_EncryptionRequest

----------------------------------------------------------------------------
\* C1: when a C->S EncryptionResponse processed in LOGIN carries a token that
\* differs from the proxy-issued one, the session is torn down in the same
\* pump iteration: both sockets are closed and the phase is reset to IDLE.
C1_MismatchTearsDown ==
    why = TokenMismatch =>
        mitm.cs = -1 /\ mitm.ms = -1 /\ mitm.state = STATE_IDLE

\* C2: a fatal crypto-integrity error (undecodable server key, failed RSA
\* decryption, token mismatch) drops only the session pair: the proxy is
\* still running afterwards and still accepts a new client.
C2_ProxySurvives ==
    why \in CryptoFailures => proc = "running"

----------------------------------------------------------------------------
\* everything the frames of this call put on the forward buffer, in order
RECURSIVE Outs(_)
Outs(log) ==
    IF log = <<>> THEN <<>>
    ELSE (IF Head(log).op = "frame" THEN Head(log).out ELSE <<>>) \o Outs(Tail(log))

\* the call has ended and its forward buffer went to the other leg
Range(q) == {q[i] : i \in DOMAIN q}

Forwarded(is_client) ==
    /\ pc = "poll" /\ proc = "running" /\ io # <<>> /\ cur # Zero
    /\ cur.priv = is_client

\* what the holder of an RSA private key reads in a ciphertext
Opens(ct, key) == IF ct.pk = key THEN ct.m ELSE [garbage |-> ct]

\* C4: the EncryptionResponse the proxy sends to the server holds two
\* ciphertexts under the server's public key that decrypt to the
\* proxy-generated server-side AES key and to the token the server sent,
\* never to the client's AES key or the token the proxy issued.
C4_ResponseToServer ==
    \A i \in Frames :
        IsResponseEvent(io[i]) /\ io[i].proc = "running" =>
            /\ lastreq # Zero
            /\ Len(io[i].out) = 1
            /\ LET b == Body(io[i].out[1], io[i].comptr)
                   got == Body(io[i].f, io[i].comptr)
                   serverKey == lastreq[3].der
               IN  /\ Len(b) = 3 /\ b[1] = V(PID_EncryptionResponse)
                   /\ Opens(b[2], serverKey) = mitm.s_skey
                   /\ DOMAIN mitm.s_skey = {"rnd"}
                   /\ Opens(b[3], serverKey) = lastreq[4].tok
                   /\ b[2].m # got[2].m /\ b[2].m # mitm.c_skey
                   /\ b[3].m # got[3].m /\ b[3].m # mitm.c_token
            /\ Forwarded(1) =>
                  \E w \in Writes : /\ io[w].conn = mitm.ms_conn
                                    /\ io[w].data = Outs(io)

C4_Witness ==
    /\ Forwarded(1) /\ mitm.encryption_active = 1
    /\ \E i \in Frames : IsResponseEvent(io[i]) /\ io[i].proc = "running"

\* C5: for every EncryptionRequest of the server received in LOGIN the
\* client gets exactly one synthesized EncryptionRequest with the same
\* serverId, the proxy's own public key and the proxy's own token, both
\* different from the server's; the server's frame itself is not forwarded.
C5_RequestToClient ==
    /\ \A i \in Frames :
          IsRequestEvent(io[i]) /\ io[i].proc = "running" =>
              /\ Len(io[i].out) = 1 /\ io[i].back = <<>>
              /\ io[i].out[1] # io[i].f
              /\ LET b == Body(io[i].out[1], io[i].comptr)
                     got == Body(io[i].f, io[i].comptr)
                 IN  /\ Len(b) = 4 /\ b[1] = V(PID_EncryptionRequest)
                     /\ b[2] = got[2]
                     /\ DOMAIN b[3].der = {"gen"} /\ b[3] # got[3]
                     /\ DOMAIN b[4].tok = {"rnd"} /\ b[4] # got[4]
                     /\ (\A j \in Frames : j > i => ~IsRequestEvent(io[j])) =>
                            b[3].der = mitm.c_rsa /\ b[4].tok = mitm.c_token
    /\ Forwarded(0) /\ (\E i \in Frames : IsRequestEvent(io[i])) =>
          \E w \in Writes :
              /\ io[w].conn = mitm.cs_conn
              /\ io[w].data = Outs(io)

C5_Witness ==
    /\ Forwarded(0)
    /\ \E i \in Frames : IsRequestEvent(io[i]) /\ io[i].proc = "running"
    /\ \E w \in Writes : io[w].conn = mitm.cs_conn

\* C6: once encryption is active the legs share no key material: every read
\* from and write to the client uses the client-side key with the
\* client-side decrypt or encrypt cursor, every read from and write to the
\* server the server-side key and cursors, on the read, forward and reply
\* paths alike.
LegCrypt(e) ==
    LET side == IF e.conn.priv = 1 THEN "c" ELSE "s"
        ctx == IF side = "c" THEN "c_aes" ELSE "s_aes"
        ivn == IF e.op = "read"
               THEN (IF side = "c" THEN "c_dec_iv" ELSE "s_dec_iv")
               ELSE (IF side = "c" THEN "c_enc_iv" ELSE "s_enc_iv")
    IN  /\ e.crypt.ctx = ctx /\ e.crypt.ivn = ivn
        /\ e.crypt.iv.key = e.crypt.key
        /\ DOMAIN e.crypt.key = (IF side = "c" THEN {"ext"} ELSE {"rnd"})

C6_LegsApart ==
    /\ \A i \in DOMAIN io :
          io[i].op \in {"read", "write"} /\ io[i].crypt # NoCrypt =>
              LegCrypt(io[i])
    /\ mitm.encryption_active = 1 =>
          /\ mitm.c_aes # mitm.s_aes
          /\ mitm.c_enc_iv.key = mitm.c_aes /\ mitm.c_dec_iv.key = mitm.c_aes
          /\ mitm.s_enc_iv.key = mitm.s_aes /\ mitm.s_dec_iv.key = mitm.s_aes

\* a call in PLAY that read, forwarded and replied, all under encryption
C6_Witness ==
    /\ pc = "poll" /\ proc = "running"
    /\ \E i, j, k \in DOMAIN io :
          /\ io[i].op = "read" /\ io[i].crypt # NoCrypt
          /\ io[j].op = "write" /\ io[j].crypt # NoCrypt
          /\ io[k].op = "write" /\ io[k].crypt # NoCrypt
          /\ io[j].conn.priv = 1 /\ io[k].conn.priv = 0

----------------------------------------------------------------------------
SameSession == session' = session

Cursors == {"c_enc_iv", "c_dec_iv", "s_enc_iv", "s_dec_iv"}

C8_InitialisedOnce ==
    [][SameSession /\ mitm.encryption_active = 1 =>
         /\ mitm'.c_aes = mitm.c_aes /\ mitm'.s_aes = mitm.s_aes
         /\ \A c \in Cursors : /\ mitm'[c].key = mitm[c].key
                               /\ mitm'[c].n >= mitm[c].n]_vars

\* C9: the EncryptionResponse to the server and everything emitted before it
\* is plaintext; encryption starts at the end of the call of handle_proxy
\* that processed the client's EncryptionResponse, and every later call
\* decrypts what it reads and encrypts what it writes.
Plain(e) == e.op \in {"read", "write"} => e.crypt = NoCrypt
Ciphered(e) == e.op \in {"read", "write"} => e.crypt # NoCrypt
Verified == posts # {}

C9_PlainUntilCallEnds ==
    /\ [](/\ (\A i \in DOMAIN io : Plain(io[i])) \/ (\A i \in DOMAIN io : Ciphered(io[i]))
          /\ \A i \in Frames :
                IsResponseEvent(io[i]) /\ io[i].proc = "running" /\ Plain(io[1]) =>
                    /\ \A j \in DOMAIN io : Plain(io[j])
                    /\ Forwarded(1) => mitm.encryption_active = 1
          /\ ~Verified => mitm.encryption_active = 0)
    /\ [][pc = "poll" /\ pc' = "extract" =>
            IF Verified THEN Ciphered(io'[1]) /\ mitm.encryption_active = 1
                        ELSE Plain(io'[1])]_vars

\* the call that processed the EncryptionResponse is over: plaintext went to
\* the server and encryption is on
C9_Witness ==
    /\ Forwarded(1) /\ Plain(io[1]) /\ mitm.encryption_active = 1
    /\ \E w \in Writes : io[w].conn = mitm.ms_conn /\ Plain(io[w])

\* a later call under encryption
C9_WitnessLater ==
    /\ pc = "poll" /\ proc = "running" /\ io # <<>>
    /\ \E w \in Writes : Ciphered(io[w])

\* C10, as stated: once the compression threshold is >= 0 it is not set
\* back to a negative value before the session ends.
SessionGoesOn == SameSession /\ mitm'.cs = mitm.cs

IsSetCompressionEvent(e) ==
    /\ e.op = "frame" /\ e.is_client = 0 /\ e.state = STATE_LOGIN
    /\ e.proc = "running"
    /\ TypeOf(e.f, e.comptr) = PID_SetCompression

----------------------------------------------------------------------------
\* The envelope as a receiver reads it

\* the frame inside g when the threshold is comptr
Unwrap(g, comptr) ==
    IF comptr < 0 THEN g
    ELSE IF Head(g) = V(0) THEN Tail(g)
    ELSE IF Len(g) = 2 /\ DOMAIN g[2] = {"z"} THEN g[2].z
    ELSE <<>>

\* g has the compressed-envelope form a receiver with threshold t expects
InEnvelope(g, t) ==
    /\ Len(g) >= 2 /\ IsVarint(Head(g))
    /\ \/ Head(g).v = 0
       \/ Len(g) = 2 /\ DOMAIN g[2] = {"z"} /\ Head(g).v = FrameSize(g[2].z)
    /\ FrameSize(Unwrap(g, t)) < t => Head(g).v = 0

\* a SetCompression of the server, of the LOGIN or of the PLAY phase
IsThresholdEvent(e) ==
    /\ e.op = "frame" /\ e.is_client = 0 /\ e.proc = "running"
    /\ Unwrap(e.f, e.comptr) # <<>>
    /\ \/ e.state = STATE_LOGIN
          /\ Head(Unwrap(e.f, e.comptr)) = V(PID_SetCompression)
       \/ e.state = STATE_PLAY
          /\ Head(Unwrap(e.f, e.comptr)) = V(PID_SP_SetCompression)

ThresholdOf(e) == Unwrap(e.f, e.comptr)[2].v

\* what the frames i+1.. of this call put on the wire, up to the next
\* SetCompression
EmittedAfter(i) ==
    UNION {Range(io[j].out) \cup Range(io[j].back) :
             j \in {k \in Frames : /\ k > i
                                   /\ \A l \in Frames :
                                        i < l /\ l <= k => ~IsThresholdEvent(io[l])}}

\* C11: once a SetCompression of the server with threshold t >= 0 was
\* observed, in whichever phase, the frame itself goes on in the form it
\* arrived in and every frame emitted after it has the compressed-envelope
\* form, frames smaller than t with U = 0.
C11_EnvelopeAfterSetCompression ==
    \A i \in Frames :
        IsThresholdEvent(io[i]) /\ ThresholdOf(io[i]) >= 0 =>
            /\ io[i].out = <<io[i].f>>
            /\ \A g \in EmittedAfter(i) : InEnvelope(g, ThresholdOf(io[i]))

\* the same for a SetCompression of the LOGIN phase only
C11_LoginOnly ==
    \A i \in Frames :
        /\ IsThresholdEvent(io[i]) /\ ThresholdOf(io[i]) >= 0
        /\ io[i].state = STATE_LOGIN
        => /\ io[i].out = <<io[i].f>>
           /\ mitm.comptr >= 0 \/ \E j \in Frames : j > i /\ IsThresholdEvent(io[j])
           /\ \A g \in EmittedAfter(i) : InEnvelope(g, ThresholdOf(io[i]))

----------------------------------------------------------------------------
\* the transmit rule of the compression layer
Rule(F, t) ==
    IF FrameSize(F) >= t THEN <<V(FrameSize(F)), [z |-> F]>> ELSE <<V(0)>> \o F

IsPlayEvent(e) == e.op = "frame" /\ e.state = STATE_PLAY /\ e.proc = "running"

\* the events that emit a synthesized EncryptionRequest or EncryptionResponse
IsSynthEvent(e) ==
    (IsRequestEvent(e) \/ IsResponseEvent(e)) /\ e.proc = "running"

\* C12, as stated: while the threshold is >= 0 every emitted frame follows
\* the transmit rule, the re-encoded PLAY frames and also the synthesized
\* EncryptionRequest and EncryptionResponse.
C12_RuleForAll ==
    \A i \in Frames :
        io[i].comptr >= 0 /\ (IsPlayEvent(io[i]) \/ IsSynthEvent(io[i])) =>
            \A g \in Range(io[i].out) \cup Range(io[i].back) :
                g = Rule(Unwrap(g, io[i].comptr), io[i].comptr)

\* C12, amended: while the threshold is >= 0 every re-encoded PLAY frame
\* follows the transmit rule; a synthesized EncryptionRequest or
\* EncryptionResponse always has the U = 0 form, whatever its size.
C12_RuleForPlay ==
    \A i \in Frames :
        io[i].comptr >= 0 =>
            /\ IsPlayEvent(io[i]) =>
                 /\ io[i].out # <<>>
                 /\ \A g \in Range(io[i].out) \cup Range(io[i].back) :
                      g = Rule(Unwrap(io[i].f, io[i].comptr), io[i].comptr)
            /\ IsSynthEvent(io[i]) =>
                 /\ Len(io[i].out) = 1
                 /\ Head(io[i].out[1]) = V(0)
                 /\ Head(Tail(io[i].out[1])) =
                       Head(Unwrap(io[i].f, io[i].comptr))

\* one call in PLAY emitted a compressed frame and a frame with U = 0
C12_Witness ==
    /\ pc = "poll" /\ proc = "running" /\ mitm.comptr >= 0
    /\ \E i, j \in Frames :
          /\ IsPlayEvent(io[i]) /\ IsPlayEvent(io[j])
          /\ Head(io[i].out[1]) = V(0)
          /\ Head(io[j].out[1]) # V(0)
    /\ \E w \in Writes : Len(io[w].data) = 2

----------------------------------------------------------------------------
\* C13: envelope round trip: for any frame F and threshold t >= 0, what
\* write_packet emits for F, framed by write_packet_raw and read back by the
\* extraction loop and process_play_packet, is exactly F.
C13_RoundTrip ==
    pc = "done" =>
        /\ proc = "running"
        /\ io[1].dispatched
        /\ io[1].data = cur.F

\* the long frame went through in compressed form
C13_Witness ==
    /\ pc = "done" /\ cur.F = LongFrame /\ mitm.comptr \in 1..MaxThreshold
    /\ io[1].data = LongFrame

\* a short frame went through in the U = 0 form
C13_WitnessRaw ==
    /\ pc = "done" /\ Len(cur.F) < mitm.comptr /\ io[1].data = cur.F

----------------------------------------------------------------------------
\* C14: in every reachable state the protocol phase is one of IDLE, STATUS,
\* LOGIN and PLAY, whatever nextState a client puts in its Handshake.
Phases == {STATE_IDLE, STATE_STATUS, STATE_LOGIN, STATE_PLAY}

C14_PhaseInRange == mitm.state \in Phases

----------------------------------------------------------------------------
\* C15: the phase becomes PLAY only through a LoginSuccess of the server
\* received while the phase is LOGIN; no frame of the client moves the
\* session into PLAY.
IsLoginSuccessEvent(e) ==
    /\ e.op = "frame" /\ e.is_client = 0 /\ e.state = STATE_LOGIN
    /\ TypeOf(e.f, e.comptr) = PID_LoginSuccess

C15_PlayOnlyByLoginSuccess ==
    [][mitm.state # STATE_PLAY /\ mitm'.state = STATE_PLAY =>
          /\ Len(io') = Len(io) + 1
          /\ IsLoginSuccessEvent(io'[Len(io')])]_vars

----------------------------------------------------------------------------
\* C16: for PLAY-phase frames arriving on either leg, what the handler put
\* in the forward queue is sent to the peer opposite to the arrival side and
\* what it put in the reply queue is sent back to the arrival side, each
\* encrypted for the leg it is sent on.
RECURSIVE Backs(_)
Backs(log) ==
    IF log = <<>> THEN <<>>
    ELSE (IF Head(log).op = "frame" THEN Head(log).back ELSE <<>>) \o Backs(Tail(log))

\* the call of handle_proxy for the connection cur has returned
CallEnded == pc = "poll" /\ proc = "running" /\ io # <<>> /\ cur # Zero

\* the two legs of the session, and the writes of the call to the leg on
\* the arrival side and to the leg on the other side
Legs == {mitm.cs_conn, mitm.ms_conn}
ToArrival == {w \in Writes : io[w].conn \in Legs /\ io[w].conn.priv = cur.priv}
ToOpposite ==
    {w \in Writes : io[w].conn \in Legs /\ io[w].conn.priv = 1 - cur.priv}

\* a write is encrypted if the call runs under encryption, for its leg
EncryptedForLeg(w) ==
    IF io[1].crypt = NoCrypt THEN io[w].crypt = NoCrypt
    ELSE io[w].crypt # NoCrypt /\ LegCrypt(io[w])

C16_QueuesToTheirPeers ==
    CallEnded /\ (\E i \in Frames : IsPlayEvent(io[i])) =>
        /\ Writes = ToArrival \cup ToOpposite
        /\ \A w \in ToOpposite : io[w].data = Outs(io) /\ EncryptedForLeg(w)
        /\ \A w \in ToArrival :
              /\ io[w].data = Backs(io) /\ EncryptedForLeg(w)
              /\ cur \in Legs => io[w].conn = cur
        /\ Outs(io) # <<>> => Cardinality(ToOpposite) = 1
        /\ Backs(io) # <<>> => Cardinality(ToArrival) = 1

\* an encrypted call for the server's leg whose PLAY frame was forwarded to
\* the client and answered to the server
C16_Witness ==
    /\ CallEnded /\ cur = mitm.ms_conn /\ io[1].crypt # NoCrypt
    /\ \E i \in Frames :
          IsPlayEvent(io[i]) /\ io[i].out # <<>> /\ io[i].back # <<>>
    /\ ToArrival # {} /\ ToOpposite # {}

----------------------------------------------------------------------------
\* C17: with the default handler every frame processed in the PLAY phase,
\* of a known or an unknown type, is re-emitted to the opposite peer exactly
\* once, with its type prefix and its payload as they came, and nothing is
\* sent back; an unknown type is never fatal.
Reemitted(e) ==
    /\ e.proc = "running"
    /\ e.back = <<>>
    /\ Len(e.out) = 1
    /\ Unwrap(e.out[1], e.comptr) = Unwrap(e.f, e.comptr)

IsPlayFrame(e) == e.op = "frame" /\ e.state = STATE_PLAY

C17_ReemittedOnce ==
    \A i \in Frames : IsPlayFrame(io[i]) => Reemitted(io[i])

\* the same for the types that have a row in SUPPORT
C17_InSupport ==
    \A i \in Frames :
        /\ IsPlayFrame(io[i])
        /\ InSupport(Head(Unwrap(io[i].f, io[i].comptr)).v)
        => Reemitted(io[i])

----------------------------------------------------------------------------
\* C18: within one direction the frames delivered to the peer appear in the
\* order in which they arrived, over any number of calls of handle_proxy: no
\* forwarded frame is lost, duplicated or reordered.  Between two calls
\* nothing is held back; within a call the k-th frame written to the
\* opposite leg is the k-th frame that arrived (or what the proxy puts in
\* the place of an intercepted EncryptionRequest or EncryptionResponse), and
\* all of them go out in one write.
Arrived == SelectSeq(io, LAMBDA e : e.op = "frame")

\* the frame g is what goes on for the frame of the event e
GoesOnFor(g, e) ==
    IF IsRequestEvent(e) \/ IsResponseEvent(e)
    THEN Unwrap(g, e.comptr) # <<>>
         /\ Head(Unwrap(g, e.comptr)) = Head(Unwrap(e.f, e.comptr))
    ELSE IF e.state = STATE_PLAY
    THEN Unwrap(g, e.comptr) # <<>>
         /\ Unwrap(g, e.comptr) = Unwrap(e.f, e.comptr)
    ELSE g = e.f

C18_ArrivalOrder ==
    /\ pc = "poll" /\ proc = "running" =>
          /\ mitm.cs_tx = <<>> /\ mitm.ms_tx = <<>>
          /\ mitm.cs_rx = 0 /\ mitm.ms_rx = 0
    /\ pc \in {"extract", "flush"} /\ proc = "running" =>
          /\ mitm[TxOf(cur.priv)] = Outs(io)
          /\ Writes = {}
    /\ proc = "running" /\ io # <<>> =>
          /\ Len(Outs(io)) = Len(Arrived)
          /\ \A k \in 1..Len(Arrived) : GoesOnFor(Outs(io)[k], Arrived[k])
    /\ CallEnded =>
          /\ Cardinality(Writes) = 1
          /\ \A w \in Writes : w \in ToOpposite /\ io[w].data = Outs(io)

\* a call in which two different frames arrived and went on, in PLAY
C18_Witness ==
    /\ CallEnded /\ Len(Arrived) = 2
    /\ Arrived[1].f # Arrived[2].f
    /\ Arrived[2].state = STATE_PLAY
    /\ \E w \in Writes : io[w].data = <<Arrived[1].f, Arrived[2].f>>

----------------------------------------------------------------------------
\* C19: the synthesized EncryptionRequest is emitted to the client only
\* after the server's EncryptionRequest was parsed; the POST to the session
\* server is made after the client's token was verified and before the
\* EncryptionResponse is emitted to the server; that EncryptionResponse is
\* emitted only after the client's EncryptionResponse was decrypted and its
\* token verified.
Bare(g) == IF Head(g) = V(0) THEN Tail(g) ELSE g

\* g is an EncryptionRequest that carries a key the proxy generated
IsSynthRequest(g) ==
    LET b == Bare(g)
    IN  /\ Len(b) = 4 /\ b[1] = V(PID_EncryptionRequest)
        /\ DOMAIN b[3] = {"der"} /\ DOMAIN b[3].der = {"gen"}

\* g is an EncryptionResponse that carries an AES key the proxy generated
IsSynthResponse(g) ==
    LET b == Bare(g)
    IN  /\ Len(b) = 3 /\ b[1] = V(PID_EncryptionResponse)
        /\ DOMAIN b[2] = {"pk", "m"} /\ DOMAIN b[2].m = {"rnd"}

\* the client's EncryptionResponse of the event e opens under the proxy's
\* private key m.c_rsa and holds the token the proxy issued
TokenVerified(e, m) ==
    LET got == Body(e.f, e.comptr)
    IN  /\ m.c_rsa # Zero
        /\ got[2].pk = m.c_rsa /\ got[3].pk = m.c_rsa
        /\ Opens(got[3], m.c_rsa) = m.c_token

\* the write at position w of the log, with the events before it
EmitsInOrder(log, w, m) ==
    \A k \in DOMAIN log[w].data :
        LET g == log[w].data[k]
        IN  /\ IsSynthRequest(g) =>
                  /\ log[w].conn.priv = 1
                  /\ \E i \in 1..(w - 1) :
                        /\ IsRequestEvent(log[i]) /\ log[i].proc = "running"
                        /\ log[i].out = <<g>>
            /\ IsSynthResponse(g) =>
                  /\ log[w].conn.priv = 0
                  /\ \E i \in 1..(w - 1) :
                        /\ IsResponseEvent(log[i]) /\ log[i].proc = "running"
                        /\ log[i].out = <<g>>
                        /\ TokenVerified(log[i], m)

C19_HandshakeOrder ==
    /\ [](\A w \in Writes : EmitsInOrder(io, w, mitm))
    /\ [](\A i \in Frames :
             IsResponseEvent(io[i]) /\ io[i].proc = "running" =>
                 AuthBody(mitm) \in posts)
    /\ [][SameSession /\ posts' # posts =>
             /\ pc = "extract" /\ Len(io') = Len(io) + 1
             /\ IsResponseEvent(io'[Len(io')])
             /\ io'[Len(io')].proc = "running"
             /\ TokenVerified(io'[Len(io')], mitm)
             /\ posts' = posts \cup {AuthBody(mitm')}
             /\ \A j \in DOMAIN io' : io'[j].op # "write"]_vars
    /\ [][\A w \in (Len(io) + 1)..Len(io') :
             /\ io'[w].op = "write"
             /\ \E k \in DOMAIN io'[w].data : IsSynthResponse(io'[w].data[k])
             => posts # {} /\ posts' = posts]_vars

\* the call that emitted the EncryptionResponse to the server has ended,
\* in a session in which the synthesized EncryptionRequest went out
C19_Witness ==
    /\ CallEnded /\ cur = mitm.cs_conn /\ lastreq # Zero /\ posts # {}
    /\ \E w \in Writes : \E k \in DOMAIN io[w].data :
          IsSynthResponse(io[w].data[k]) /\ io[w].conn = mitm.ms_conn

----------------------------------------------------------------------------
\* C20: the serverId of the body posted to the real session server is the
\* hash of the serverId string the server advertised, the server-side AES
\* key and the server's DER public key, in that order; it is never the
\* serverId scraped from the join request and is not made from the
\* client-side AES key or the proxy's own public key; accessToken and
\* selectedProfile are the values scraped from the join request.
Posted == posts' \ posts

C20_PostedBody ==
    [][SameSession =>
         \A b \in Posted :
            /\ lastreq # Zero
            /\ b.serverId = [hex |-> SHA1(lastreq[2], mitm.s_skey, lastreq[3])]
            /\ DOMAIN mitm.s_skey = {"rnd"}
            /\ Body(io'[Len(io')].out[1], mitm.comptr)[2].m = mitm.s_skey
            /\ b.serverId # mitm.serverId
            /\ \A x \in Range(b.serverId.hex.sha1) :
                   x \notin {mitm.serverId, mitm'.c_skey, mitm.c_pkey}
            /\ b.accessToken = mitm.accessToken
            /\ b.selectedProfile = mitm.selectedProfile]_vars

\* a body was posted with the identity the launcher sent to the endpoint
C20_Witness ==
    \E b \in posts :
        /\ b.accessToken = [s |-> "at1"] /\ b.selectedProfile = [s |-> "sp1"]
        /\ mitm.serverId = [s |-> "sid1"]
        /\ DOMAIN b.serverId = {"hex"}

----------------------------------------------------------------------------
\* C21: for every digest d, print_hex(d) is the hexadecimal text of d read as
\* a big-endian two's-complement signed integer: '-' and the magnitude when
\* the top bit of byte 0 is set, the value itself otherwise, in both cases
\* without leading zeros.
RECURSIVE Unsigned(_)
Unsigned(d) ==
    IF d = <<>> THEN 0 ELSE 256 * Unsigned(SubSeq(d, 1, Len(d) - 1)) + d[Len(d)]

RECURSIVE Pow256(_)
Pow256(n) == IF n = 0 THEN 1 ELSE 256 * Pow256(n - 1)

\* the hex digits of a natural number, none for 0
RECURSIVE Hex(_)
Hex(n) == IF n = 0 THEN <<>> ELSE Hex(n \div 16) \o <<n % 16>>

SignedHex(d) ==
    IF d[1] >= 128 THEN <<Minus>> \o Hex(Pow256(Len(d)) - Unsigned(d))
    ELSE Hex(Unsigned(d))

C21_SignedHex == pc = "done" => io[1].auth = SignedHex(cur.md)

\* the same where char is signed, for the digests whose last byte is not 0
\* or whose top bit is clear
C21_NoCarry ==
    pc = "done" /\ cur.char_signed
    /\ (cur.md[1] < 128 \/ cur.md[Len(cur.md)] # 0)
    => io[1].auth = SignedHex(cur.md)

\* where char is unsigned, the digests whose top bit is clear
C21_Positive ==
    pc = "done" /\ cur.md[1] < 128 => io[1].auth = SignedHex(cur.md)

----------------------------------------------------------------------------
\* C22: when either socket reports remote-EOF, in any phase, both sockets
\* are closed and deregistered from the pump, the RSA and AES contexts are
\* released, the four buffers are cleared and the phase is reset to IDLE.
EOFStep == \E c \in conns : HandleProxyEOF(c)

\* what the step leaves of the two sockets and of the phase
ClosedAndIdle(m, registered) ==
    /\ m.cs = -1 /\ m.ms = -1
    /\ m.cs_conn \notin registered /\ m.ms_conn \notin registered
    /\ m.state = STATE_IDLE

Released(m) ==
    /\ m.s_rsa = Zero /\ m.c_rsa = Zero
    /\ m.c_aes = Zero /\ m.s_aes = Zero

BuffersCleared(m) ==
    /\ m.cs_rx = 0 /\ m.ms_rx = 0 /\ m.cs_tx = <<>> /\ m.ms_tx = <<>>

C22_TearDown ==
    [][EOFStep =>
         /\ ClosedAndIdle(mitm', conns')
         /\ Released(mitm')
         /\ BuffersCleared(mitm')]_vars

\* the part of the tear-down that concerns the sockets, the phase and the
\* buffers
C22_SocketsAndPhase ==
    [][EOFStep => ClosedAndIdle(mitm', conns') /\ BuffersCleared(mitm')]_vars

----------------------------------------------------------------------------
\* C23: at most one session is active at any time: a session that is live
\* when a new client is accepted is torn down first, so at every moment at
\* most one client socket and one server socket are registered with the
\* pump, and no data of an old connection is processed against the state of
\* the new session.
Registered(priv) == {c \in conns : c.priv = priv}

C23_OneSession ==
    /\ Cardinality(Registered(1)) <= 1
    /\ Cardinality(Registered(0)) <= 1
    /\ pc \in {"extract", "flush"} /\ proc = "running" => cur \in Legs

----------------------------------------------------------------------------
\* C24: a failure of the POST to the real session server does not abort the
\* handshake: the EncryptionResponse is still emitted to the server,
\* encryption is still armed and activated, and the session stays up.
LastFrame == io[CHOOSE i \in Frames : \A j \in Frames : j <= i]

\* the POST of the frame processed last in this call, which runs for a leg
\* of the live session, has failed
PostFailed == why = CurlFailed /\ Frames # {} /\ cur \in Legs

C24_FailedPostGoesOn ==
    PostFailed =>
        /\ proc = "running"
        /\ mitm.cs # -1 /\ mitm.ms # -1 /\ Legs \subseteq conns
        /\ mitm.state = STATE_LOGIN
        /\ IsResponseEvent(LastFrame) /\ Len(LastFrame.out) = 1
        /\ IsSynthResponse(LastFrame.out[1])
        /\ pc \in {"extract", "flush"} =>
              /\ mitm.enable_encryption = 1
              /\ LastFrame.out[1] \in Range(mitm.cs_tx)
        /\ pc = "poll" =>
              /\ mitm.enable_encryption = 0 /\ mitm.encryption_active = 1
              /\ \E w \in Writes :
                    /\ io[w].conn = mitm.ms_conn
                    /\ LastFrame.out[1] \in Range(io[w].data)

\* the call in which the POST failed has ended
C24_Witness ==
    /\ PostFailed /\ pc = "poll" /\ mitm.encryption_active = 1
    /\ \E w \in Writes : io[w].conn = mitm.ms_conn

----------------------------------------------------------------------------
\* the value the process ends with
ExitCode == io[Len(io)].code

AllUp == cur.dns = "ok" /\ cur.ss = "ok" /\ cur.ws = "ok" /\ cur.sigaction = "ok"

\* C25: the process ends with 0 after a graceful termination and with
\* something else after every failure of the initialization: the host that
\* is not resolved, a listener that cannot be opened, the signal handler
\* that cannot be installed.
C25_ExitCodes == proc = "exited" => (ExitCode = 0 <=> AllUp)

\* C25, the part the code keeps: a host that is not resolved ends the process
\* with a value other than 0, and the run that reached the loop ends with 0.
C25_ResolveAndLoop ==
    proc = "exited" =>
       /\ cur.dns = "fail" => ExitCode # 0
       /\ AllUp => ExitCode = 0

----------------------------------------------------------------------------
Ops(name) == {i \in DOMAIN io : io[i].op = name}

Caught == signal_caught(io)

\* what the loop did after the first signal
C26_Safe ==
    /\ Ops("iteration") = {}
    /\ Cardinality(Ops("lh_poll")) <= 1
    /\ Ops("fclose") # {} => Caught
    /\ proc = "exited" /\ Caught /\ AllUp =>
          /\ mitm.output = 0
          /\ \A i \in Ops("fclose") : i = Len(io) - 1
          /\ Cardinality(Ops("fclose")) <= 1

\* the loop is left at its test only, and the file that was open is closed
\* on the way out
C26_Step ==
    /\ pc' = "Terminating" /\ pc # "Terminating" => pc = "while" /\ Caught
    /\ pc = "Terminating" /\ pc' = "exit" /\ mitm.output # 0 =>
          /\ Ops("fclose") = {}
          /\ io'[Len(io) + 1].op = "fclose"
          /\ mitm'.output = 0
    /\ Caught /\ pc = "handlers" => pc' \in {"handlers", "while"}

----------------------------------------------------------------------------
\* the combinations process_packet has a case for in the LOGIN phase
LoginCases ==
    {CL_EncryptionResponse, SL_EncryptionRequest, SL_SetCompression,
     SL_LoginSuccess}

\* a frame that was processed in the LOGIN phase and matched no case
UndefinedInLogin(e) ==
    /\ e.op = "frame" /\ e.state = STATE_LOGIN /\ e.proc = "running"
    /\ SType(e.state, e.is_client, TypeOf(e.f, e.comptr)) \notin LoginCases

\* C27: a frame received during LOGIN whose combination of direction, phase
\* and type has no defined transition is not forwarded to the other peer,
\* and the session pair is dropped.
C27_UndefinedDrops ==
    \A i \in Frames :
       UndefinedInLogin(io[i]) =>
          /\ io[i].out = <<>>
          /\ pc = "poll" => ClosedAndIdle(mitm, conns)

----------------------------------------------------------------------------
\* the prefix of the frame has arrived and announces more than 4 MiB
OversizeAnnounced == cur.plen > MAXPLEN /\ cur.sent >= 129

\* C28: a frame whose length prefix announces more than 4 MiB is a fatal
\* protocol error that drops the session pair: the proxy does not keep the
\* bytes of such a frame in the receive buffer and does not wait for the
\* rest of it.
C28_OversizeIsFatal ==
    OversizeAnnounced =>
       /\ mitm.cs = -1 /\ mitm.ms = -1 /\ mitm.state = STATE_IDLE
       /\ mitm.cs_rx = 0
       /\ \A i \in DOMAIN io : ~io[i].dispatched

\* C28, what the loop does instead: the bytes of the frame stay in the
\* buffer until the frame is complete, and then it is dispatched like any
\* other.
C28_Buffered ==
    /\ mitm.cs # -1 /\ mitm.ms # -1
    /\ cur.sent < TotalX(cur.plen) => mitm.cs_rx = cur.sent
    /\ cur.sent = TotalX(cur.plen) =>
          mitm.cs_rx = 0 /\ io[Len(io)].dispatched

----------------------------------------------------------------------------
\* a frame received under compression that is not an envelope the code
\* handles: U > 0 before PLAY, or U different from the inflated length
BadEnvelope(e) ==
    /\ e.op = "frame" /\ e.comptr >= 0 /\ Head(e.f).v > 0
    /\ \/ e.state # STATE_PLAY
       \/ FrameSize(Inflate(Tail(e.f))) # Head(e.f).v

\* C29: with compression enabled a received frame that cannot be handled as
\* an envelope drops the session pair and nothing else: the process keeps
\* running and goes back to listening.
C29_BadEnvelopeDropsSession ==
    \A i \in Frames :
       BadEnvelope(io[i]) =>
          /\ io[i].proc = "running" /\ proc = "running"
          /\ pc = "poll" => ClosedAndIdle(mitm, conns)

\* C29, what the code does: each of the two cases ends the process in an
\* assertion.
C29_Asserts ==
    \A i \in Frames :
       BadEnvelope(io[i]) =>
          /\ proc = "abort"
          /\ why = (IF io[i].state = STATE_PLAY THEN "assert(plen==usize)"
                    ELSE "assert(uclen==0)")

----------------------------------------------------------------------------
\* the bytes handed to the connection: those the socket took, then those
\* that wait
Stream == io \o cur.wbuf

IsCipher(x) == "enc" \in DOMAIN x
IsPlain(x) == DOMAIN x = {"b"}
Under(x) == IF IsCipher(x) THEN x.enc ELSE x

\* every byte the frames brought is in the stream once, at its place, and
\* encrypted once if at all, at consecutive positions of the cipher stream
C30_Safe ==
    /\ Len(Stream) = cur.got
    /\ \A i \in DOMAIN Stream :
          /\ IsPlain(Under(Stream[i])) /\ Under(Stream[i]).b = i
          /\ IsCipher(Stream[i]) /\ i < Len(Stream) =>
                /\ IsCipher(Stream[i + 1])
                /\ Stream[i + 1].at = Stream[i].at + 1
                /\ Stream[i + 1].key = Stream[i].key
    /\ \A i \in DOMAIN Stream :
          IsCipher(Stream[i]) /\ (i = 1 \/ ~IsCipher(Stream[i - 1])) =>
             Stream[i].at = 1

----------------------------------------------------------------------------
\* the frame of an event as process_play_packet or process_packet sees it
\* after the envelope is taken off
Decompressed(e) ==
    IF e.comptr < 0 THEN e.f
    ELSE IF Head(e.f) = V(0) THEN Tail(e.f)
    ELSE Inflate(Tail(e.f))

\* C31: while the capture file is open every extracted frame produces
\* exactly one capture record, written before the dispatch, with direction
\* 1 for a frame of the client and 0 for one of the server, with the length
\* of the payload written, and with the frame after decompression, type
\* included, as payload.
C31_RecordIsDecompressed ==
    \A i \in Frames :
       mitm.output # 0 =>
          /\ Len(io[i].mcs) = 1
          /\ io[i].mcs[1].direction = io[i].is_client
          /\ io[i].mcs[1].length = FrameSize(io[i].mcs[1].payload)
          /\ io[i].mcs[1].payload = Decompressed(io[i])

\* C31, the part the code keeps: one record per frame, dispatched or not,
\* with the direction and the length of what was written; the payload is
\* the frame as it lies in the decoded buffer, envelope included.
C31_RecordIsRaw ==
    \A i \in Frames :
       mitm.output # 0 =>
          /\ Len(io[i].mcs) = 1
          /\ io[i].mcs[1].direction = io[i].is_client
          /\ io[i].mcs[1].length = FrameSize(io[i].mcs[1].payload)
          /\ io[i].mcs[1].payload = io[i].f

----------------------------------------------------------------------------
\* the selectors the switch of process_packet names
ExactCases ==
    {<<1, STATE_IDLE, PID_Handshake>>,
     <<0, STATE_LOGIN, PID_EncryptionRequest>>,
     <<1, STATE_LOGIN, PID_EncryptionResponse>>,
     <<0, STATE_LOGIN, PID_SetCompression>>,
     <<0, STATE_LOGIN, PID_LoginSuccess>>}

SelectorOf(e) == <<e.is_client, e.state, TypeOf(e.f, e.comptr)>>

\* phase, threshold, keys, tokens and encryption flags
SessionState(m) ==
    <<m.state, m.comptr, m.s_skey, m.c_skey, m.s_rsa, m.c_rsa, m.s_pkey,
      m.c_pkey, m.s_token, m.c_token, m.s_id, m.enable_encryption,
      m.encryption_active>>

\* the frame went on as it came and the session is as it was
ForwardedUntouched(e) ==
    /\ e.proc = "running"
    /\ e.out = <<e.f>>
    /\ SessionState(e.m1) = SessionState(e.m0)

\* C32: the handshake handlers fire for the exact selector only: a frame
\* whose direction, phase and type are not those of a case is forwarded
\* unmodified and changes no session state.
C32_ExactSelector ==
    \A i \in Frames : SelectorOf(io[i]) \notin ExactCases => ForwardedUntouched(io[i])

\* C32, for the phases below 16 and the types below 2^24: there the
\* selector the code computes tells direction, phase and type apart.
C32_InRange ==
    \A i \in Frames :
       /\ SelectorOf(io[i]) \notin ExactCases
       /\ io[i].state < 16 /\ TypeOf(io[i].f, io[i].comptr) < HighBit
       => ForwardedUntouched(io[i])

----------------------------------------------------------------------------
\* a client is accepted by this step
AcceptStep == session' = session + 1

\* the context of a session that has just begun
FreshSession(m) ==
    /\ m.state = STATE_IDLE /\ m.comptr = -1
    /\ m.enable_encryption = 0 /\ m.encryption_active = 0
    /\ m.cs_rx = 0 /\ m.ms_rx = 0 /\ m.cs_tx = <<>> /\ m.ms_tx = <<>>
    /\ Released(m)
    /\ m.s_skey = Zero /\ m.c_skey = Zero
    /\ m.s_pkey = Zero /\ m.c_pkey = Zero
    /\ m.s_token = Zero /\ m.c_token = Zero /\ m.s_id = Zero
    /\ m.c_enc_iv = Zero /\ m.c_dec_iv = Zero
    /\ m.s_enc_iv = Zero /\ m.s_dec_iv = Zero
    /\ m.accessToken = Zero /\ m.selectedProfile = Zero /\ m.serverId = Zero

\* the session that ends had keys, tokens and a scraped identity
Used(m) ==
    /\ m.c_rsa # Zero /\ m.s_rsa # Zero /\ m.s_skey # Zero
    /\ m.c_token # Zero /\ m.s_id # Zero
    /\ m.accessToken # Zero /\ m.serverId # Zero

\* C33: no state of a session survives into the next one: the client that
\* is accepted finds the phase IDLE, the threshold -1, encryption neither
\* armed nor active, the four decoded buffers empty, and none of the keys,
\* tokens, serverId and scraped identity fields of the session before.
C33_NothingSurvives == [][AcceptStep => FreshSession(mitm')]_vars

\* the second client has been accepted after the first session, which had
\* keys and a scraped identity and ran into a failed POST, was torn down
C33_Witness ==
    /\ session = 2 /\ io = <<>> /\ FreshSession(mitm)
    /\ Cardinality(conns) = 2 /\ Legs \subseteq conns
    /\ why = CurlFailed

----------------------------------------------------------------------------
\* the bytes a frame takes on the wire, and the number of frames at the
\* head of a sequence that lie within its first n bytes
WireLen(F) == Len(lh_place_varint(Len(F))) + Len(F)

RECURSIVE Within(_, _)
Within(frames, n) ==
    IF frames = <<>> \/ WireLen(Head(frames)) > n THEN 0
    ELSE 1 + Within(Tail(frames), n - WireLen(Head(frames)))

----------------------------------------------------------------------------
\* C35: process_encryption_response runs with key material only: whenever
\* an EncryptionResponse of the client is processed, an EncryptionRequest
\* was intercepted before it in the same session, so the key pair and the
\* token of the client side and the public key and the AES key of the
\* server side are set.
C35_KeysExist ==
    \A i \in Frames :
       IsResponseEvent(io[i]) =>
          /\ lastreq # Zero
          /\ io[i].proc # "segv"

\* C35, what holds: the response that follows an intercepted request is
\* processed with the keys that request left.
C35_AfterRequest ==
    \A i \in Frames :
       IsResponseEvent(io[i]) /\ lastreq # Zero /\ cur \in Legs =>
          io[i].proc # "segv"

----------------------------------------------------------------------------
\* the step is a call of handle_server that set up no session
FailedAccept == nextfd' # nextfd /\ io'[1].outcome # "ok"

\* a session is live: its two connections are registered
Live == mitm.cs_conn \in conns /\ mitm.ms_conn \in conns

\* C36: when handle_server cannot set up a session, because the connect to
\* the server fails or the capture file cannot be opened, the socket it has
\* accepted is closed, and a live session is left as it is: its sockets
\* open and registered, its context unchanged.
C36_FailedAcceptIsHarmless ==
    [][FailedAccept =>
          /\ nextfd \notin cur'.open
          /\ Live => /\ mitm' = mitm /\ conns' = conns
                     /\ {mitm.cs, mitm.ms} \subseteq cur'.open]_vars

----------------------------------------------------------------------------
Identity(m) == [k \in IdentityKeys |-> m[k]]

\* C37: the scraped identity is updated all or nothing: a join request that
\* lacks one of the three keys changes none of the three stored fields and
\* gets no 204; one that has the three updates the three and gets 204.
C37_AllOrNothing ==
    [][LET e == io'[1]
       IN  IF DOMAIN e.buf = IdentityKeys
           THEN Identity(mitm') = e.buf /\ e.reply = 204
           ELSE Identity(mitm') = Identity(mitm) /\ e.reply = 0]_vars

\* C37, the part the code keeps: the reply is 204 exactly when the three
\* keys are there, and then the three fields are those of the request.
C37_ReplyTellsAll ==
    io # <<>> =>
       /\ io[1].reply = 204 <=> DOMAIN io[1].buf = IdentityKeys
       /\ io[1].reply = 204 => Identity(mitm) = io[1].buf

\* ---------------------------------------------------------------------
\* C38: a metadata set that is written by write_metadata and read back by
\* read_metadata comes back as it was: same keys, types and values.
\* write_metadata writes an optional position as absent when it has one,
\* and a block id as a single byte which read_metadata reads as a varint,
\* so sets with such entries do not come back.
ReadBack == pc = "done" /\ Len(io) = 2 /\ io[2].op = "read_metadata"
C38_RoundTrip ==
    ReadBack => io[2].back.end = "ok" /\ io[2].back.m = cur.meta

\* what does hold: sets without an optional position that is there and
\* without a block id above 127 come back as they were
PlainSet(m) ==
    \A k \in 0..31 :
        /\ m[k].type = META_OPTPOS => m[k].val = -1
        /\ m[k].type = META_BID => m[k].val < 128
C38_PlainRoundTrip ==
    ReadBack /\ PlainSet(cur.meta)
        => io[2].back.end = "ok" /\ io[2].back.m = cur.meta
C38_Witness ==
    /\ ReadBack
    /\ cur.meta[0] = [key |-> 0, type |-> META_OPTPOS, val |-> 5]
    /\ io[2].back.end = "ok"
    /\ io[2].back.m[0].val = -1

\* ---------------------------------------------------------------------
\* C39: clone_metadata returns a deep copy, so that whatever sequence of
\* clone_metadata, update_metadata and free_metadata is made on the
\* original and on the clone, no heap object is freed twice or used after
\* it was freed. clone_metadata has no case for OPTCHAT: the clone holds the
\* string of the original, and the second of the two sets to be updated or
\* freed releases it again.
C39_NoDoubleFree == \A k \in 1..Len(io) : io[k].was = "live"

\* what does hold: the sets of the other four types never share an object
C39_OthersAreDeep ==
    cur.type # META_OPTCHAT => \A k \in 1..Len(io) : io[k].was = "live"
C39_Witness ==
    /\ cur.type = META_NBT
    /\ ~cur.orig.there /\ ~cur.clone.there
    /\ Len(io) = 1 /\ io[1].op = "free" /\ io[1].was = "live"
    /\ \E o \in Objects \ {1, MaxObjects} : cur.heap[o] = "freed"

\* ---------------------------------------------------------------------
\* C40: after any sequence of build commands, an active build has a task
\* that is not empty, that holds one block per block of the plan, at the
\* plan's coordinates moved by the pivot, and whose boundary xmin..zmax is
\* the exact bounding box of its blocks; a build that is not active has an
\* empty task.
TaskOfPlan(task, plan) ==
    /\ Len(task) = Len(plan)
    /\ \E p \in PivotsF :
          \A i \in 1..Len(plan) :
              task[i] = [x |-> plan[i].x + p[1], y |-> plan[i].y + p[3],
                         z |-> plan[i].z + p[2], b |-> plan[i].b]
ExactBox(build) ==
    LET T == {build.task[i] : i \in 1..Len(build.task)}
    IN  /\ \A t \in T : /\ build.xmin <= t.x /\ t.x <= build.xmax
                        /\ build.ymin <= t.y /\ t.y <= build.ymax
                        /\ build.zmin <= t.z /\ t.z <= build.zmax
        /\ \E t \in T : t.x = build.xmin
        /\ \E t \in T : t.x = build.xmax
        /\ \E t \in T : t.y = build.ymin
        /\ \E t \in T : t.y = build.ymax
        /\ \E t \in T : t.z = build.zmin
        /\ \E t \in T : t.z = build.zmax
C40_PlannerInvariant ==
    /\ cur.active = 1 => /\ cur.task # <<>>
                         /\ TaskOfPlan(cur.task, cur.plan)
                         /\ ExactBox(cur)
    /\ cur.active = 0 => cur.task = <<>>
\* a floor of two by two placed at the pivot -2,7,1, then a dump of the task
C40_Witness ==
    /\ cur.active = 1
    /\ Len(cur.task) = 4
    /\ cur.xmin = -2 /\ cur.xmax = -1 /\ cur.zmin = 6 /\ cur.zmax = 7
    /\ cur.ymin = 1 /\ cur.ymax = 1
    /\ lastreq = [cmd |-> "dumptask", arg |-> <<>>]
====
